---- MODULE Spec2Model ----
(***************************************************************************)
(* A model of OllamaScraper (src/src/ollama-scraper.ts): the three         *)
(* asynchronous operations getModelListing, getModelDetails and            *)
(* getModelTags, the transport they await, and the extraction they run on  *)
(* the parsed document.                                                    *)
(*                                                                         *)
(* Text is modelled by TLA+ strings, character by character.  A parsed     *)
(* document (what cheerio.load returns) is a sequence of nodes in document *)
(* order, each naming its parent.  JavaScript regular expressions are      *)
(* modelled by a backtracking matcher over sequences of items, which tries *)
(* the alternatives in the order the JavaScript engine tries them.         *)
(***************************************************************************)
EXTENDS Naturals, Sequences, FiniteSets

(***************************************************************************)
(* Strings                                                                 *)
(***************************************************************************)

\* The character of s at position i (1-based), "" outside s.
Ch(s, i) == IF i >= 1 /\ i <= Len(s) THEN SubSeq(s, i, i) ELSE ""

\* The set of the characters of s.
Chars(s) == {SubSeq(s, i, i) : i \in 1..Len(s)}

LowerLetters == "abcdefghijklmnopqrstuvwxyz"

UpperLetters == "ABCDEFGHIJKLMNOPQRSTUVWXYZ"

DigitChars == "0123456789"

Digit == Chars(DigitChars)

\* \w of a JavaScript regular expression without the u flag.
WordChar == Chars(LowerLetters) \cup Chars(UpperLetters) \cup Digit \cup {"_"}

\* \s : the white space the texts of the model use.
SpaceChar == {" ", "\n", "\t"}

\* String.prototype.toLowerCase on one character.
LowerCh(c) ==
    IF c \in Chars(UpperLetters)
    THEN LET i == CHOOSE j \in 1..Len(UpperLetters) : Ch(UpperLetters, j) = c
         IN  Ch(LowerLetters, i)
    ELSE c

\* The other case of a letter, used by the i flag.
UpperCh(c) ==
    IF c \in Chars(LowerLetters)
    THEN LET i == CHOOSE j \in 1..Len(LowerLetters) : Ch(LowerLetters, j) = c
         IN  Ch(UpperLetters, i)
    ELSE c

RECURSIVE ToLowerCase(_)
ToLowerCase(s) ==
    IF s = "" THEN "" ELSE LowerCh(Head(s)) \o ToLowerCase(Tail(s))

\* Closure of a character set under case, as the i flag does to a class.
IgnoreCase(set) == set \cup {LowerCh(c) : c \in set} \cup {UpperCh(c) : c \in set}

StartsWith(s, p) == Len(p) <= Len(s) /\ SubSeq(s, 1, Len(p)) = p

\* String.prototype.includes
Includes(s, p) ==
    \E i \in 1..(Len(s) + 1) : i + Len(p) - 1 <= Len(s) /\ SubSeq(s, i, i + Len(p) - 1) = p

\* The first index of p in s, 0 when p does not occur.
IndexOf(s, p) ==
    IF Includes(s, p)
    THEN CHOOSE i \in 1..(Len(s) + 1) :
            /\ i + Len(p) - 1 <= Len(s)
            /\ SubSeq(s, i, i + Len(p) - 1) = p
            /\ \A j \in 1..(i - 1) : SubSeq(s, j, j + Len(p) - 1) # p
    ELSE 0

\* String.prototype.replace(p, "") with a string pattern: the first occurrence.
RemoveFirst(s, p) ==
    LET i == IndexOf(s, p)
    IN  IF i = 0 THEN s ELSE SubSeq(s, 1, i - 1) \o SubSeq(s, i + Len(p), Len(s))

\* String.prototype.trim
RECURSIVE TrimStart(_)
TrimStart(s) == IF s # "" /\ Head(s) \in SpaceChar THEN TrimStart(Tail(s)) ELSE s

RECURSIVE TrimEnd(_)
TrimEnd(s) ==
    IF s # "" /\ Ch(s, Len(s)) \in SpaceChar THEN TrimEnd(SubSeq(s, 1, Len(s) - 1)) ELSE s

Trim(s) == TrimEnd(TrimStart(s))

\* s.replace(/\s+/g, '')
RECURSIVE StripSpace(_)
StripSpace(s) ==
    IF s = "" THEN ""
    ELSE IF Head(s) \in SpaceChar THEN StripSpace(Tail(s))
    ELSE Head(s) \o StripSpace(Tail(s))

\* Number.prototype.toString for a natural number.
RECURSIVE NatToString(_)
NatToString(n) ==
    IF n < 10 THEN Ch(DigitChars, n + 1)
    ELSE NatToString(n \div 10) \o Ch(DigitChars, (n % 10) + 1)

DigitValue(c) == (CHOOSE j \in 1..10 : Ch(DigitChars, j) = c) - 1

\* parseInt on a string of decimal digits.
RECURSIVE ParseInt(_)
ParseInt(s) ==
    IF s = "" THEN 0
    ELSE ParseInt(SubSeq(s, 1, Len(s) - 1)) * 10 + DigitValue(Ch(s, Len(s)))

(***************************************************************************)
(* Regular expressions.  A pattern is a sequence of items:                 *)
(*   cls : a character class with a quantifier {min, max} (max < 0 is no   *)
(*         upper limit), greedy or lazy;                                   *)
(*   alt : an alternation of literal strings, tried in order; the          *)
(*         alternative "$" written as the record's field atEnd is the end  *)
(*         assertion;                                                      *)
(*   wb  : \b;   bol : ^;   eol : $.                                       *)
(* MatchFrom returns the item boundaries <<p0, .., pn>> of the first match *)
(* in backtracking order that starts at p0, or << >>.                      *)
(***************************************************************************)

Cls(set, neg, min, max, lazy) ==
    [k |-> "cls", set |-> set, neg |-> neg, min |-> min, max |-> max, lazy |-> lazy]

One(set) == Cls(set, FALSE, 1, 1, FALSE)

Opt(set) == Cls(set, FALSE, 0, 1, FALSE)

Star(set) == Cls(set, FALSE, 0, 0 - 1, FALSE)

Plus(set) == Cls(set, FALSE, 1, 0 - 1, FALSE)

Times(set, n) == Cls(set, FALSE, n, n, FALSE)

\* [^...]+? and .+? : a negated class, one or more, lazy.
NotPlusLazy(set) == Cls(set, TRUE, 1, 0 - 1, TRUE)

\* A literal string; ci is the i flag.
Lit(str, ci) == [k |-> "alt", alts |-> <<str>>, atEnd |-> FALSE, ci |-> ci]

\* (a|b|...) over literal strings.
Alt(alts, ci) == [k |-> "alt", alts |-> alts, atEnd |-> FALSE, ci |-> ci]

\* (?:a|$) : the literal alternatives, then the end of the input.
AltOrEnd(alts) == [k |-> "alt", alts |-> alts, atEnd |-> TRUE, ci |-> FALSE]

WordBoundary == [k |-> "wb"]

Bol == [k |-> "bol"]

Eol == [k |-> "eol"]

InClass(item, c) == c # "" /\ ((c \in item.set) # item.neg)

IsWordAt(s, i) == Ch(s, i) \in WordChar

\* \b holds between positions i-1 and i.
AtWordBoundary(s, i) == IsWordAt(s, i - 1) # IsWordAt(s, i)

\* How many characters from position i on belong to the item's class, up to its max.
RunLength(item, s, i, n) ==
    CHOOSE m \in n..(Len(s) + 1) :
        /\ \A j \in n..(m - 1) : InClass(item, Ch(s, i + j))
        /\ (item.max >= 0 /\ m = item.max) \/ ~InClass(item, Ch(s, i + m))

LitMatchesAt(str, ci, s, i) ==
    /\ i + Len(str) - 1 <= Len(s)
    /\ IF ci
       THEN \A j \in 1..Len(str) : LowerCh(Ch(s, i + j - 1)) = LowerCh(Ch(str, j))
       ELSE SubSeq(s, i, i + Len(str) - 1) = str

\* A match of an item at i followed by the match `rest` of the items after it.
Then(i, rest) == IF rest = << >> THEN << >> ELSE <<i>> \o rest

\* The element of a set of one element.  Only({F(v) : v \in {e}}) is F(e) with e
\* computed once, however often F uses it.
Only(set) == CHOOSE x \in set : TRUE

\* Of the pairs <<n, match>>, the match with the least n, or with the greatest.
Pick(hits, least) ==
    (CHOOSE p \in hits : \A q \in hits : IF least THEN p[1] <= q[1] ELSE p[1] >= q[1])[2]

\* The pairs of tries whose match is one.
Hits(tries) == {p \in tries : p[2] # << >>}

\* Item k at i, given the matches of the items after it for each of its counts.
CountStep(i, lazy, hits) == IF hits = {} THEN << >> ELSE <<i>> \o Pick(hits, lazy)

\* The leftmost of the matches found at the start positions.
ExecStep(hits) == IF hits = {} THEN << >> ELSE Pick(hits, TRUE)

RECURSIVE MatchFrom(_, _, _, _)
RECURSIVE TryCounts(_, _, _, _, _, _)
RECURSIVE TryAlts(_, _, _, _, _)
RECURSIVE AltStep(_, _, _, _, _, _)

\* A class item whose class holds for `run` characters from i on.
ClassFrom(pat, k, s, i, run) ==
    IF run < pat[k].min THEN << >>
    ELSE IF run = pat[k].min THEN Then(i, MatchFrom(pat, k + 1, s, i + run))
    ELSE TryCounts(pat, k, s, i, pat[k].min, run)

MatchFrom(pat, k, s, i) ==
    IF k > Len(pat) THEN <<i>>
    ELSE CASE pat[k].k = "cls" -> ClassFrom(pat, k, s, i, RunLength(pat[k], s, i, 0))
           [] pat[k].k = "alt" -> TryAlts(pat, k, s, i, 1)
           [] pat[k].k = "wb" ->
                IF AtWordBoundary(s, i) THEN Then(i, MatchFrom(pat, k + 1, s, i)) ELSE << >>
           [] pat[k].k = "bol" ->
                IF i = 1 THEN Then(i, MatchFrom(pat, k + 1, s, i)) ELSE << >>
           [] pat[k].k = "eol" ->
                IF i = Len(s) + 1 THEN Then(i, MatchFrom(pat, k + 1, s, i)) ELSE << >>

\* Item k takes between n and run characters: a greedy item the most, a lazy item
\* the fewest, with which the items after it match.
TryCounts(pat, k, s, i, n, run) ==
    Only({CountStep(i, pat[k].lazy, hits) :
            hits \in {Hits({<<m, MatchFrom(pat, k + 1, s, i + m)>> : m \in n..run})}})

\* The alternatives of item k from the a-th on, then the end assertion if it has one.
TryAlts(pat, k, s, i, a) ==
    IF a > Len(pat[k].alts)
    THEN IF pat[k].atEnd /\ i = Len(s) + 1
         THEN Then(i, MatchFrom(pat, k + 1, s, i))
         ELSE << >>
    ELSE AltStep(pat, k, s, i, a,
                 IF LitMatchesAt(pat[k].alts[a], pat[k].ci, s, i)
                 THEN MatchFrom(pat, k + 1, s, i + Len(pat[k].alts[a]))
                 ELSE << >>)

AltStep(pat, k, s, i, a, rest) ==
    IF rest # << >> THEN <<i>> \o rest ELSE TryAlts(pat, k, s, i, a + 1)

\* RegExp.prototype.exec from position `from`: the leftmost match, or << >>.
ExecFrom(pat, s, from) ==
    Only({ExecStep(hits) :
            hits \in {Hits({<<f, MatchFrom(pat, 1, s, f)>> : f \in from..(Len(s) + 1)})}})

\* String.prototype.match without the g flag / RegExp.prototype.exec.
Exec(pat, s) == ExecFrom(pat, s, 1)

\* RegExp.prototype.test
Test(pat, s) == Exec(pat, s) # << >>

\* The text of items a..b of a match m (a capture group spanning those items).
Group(s, m, a, b) == SubSeq(s, m[a], m[b + 1] - 1)

\* match ? match[n] : undefined, for the group spanning items a..b.
GroupOf(s, m, a, b) == IF m = << >> THEN << >> ELSE <<Group(s, m, a, b)>>

\* The capture group of the first match of pat in s, if there is a match.
Capture(pat, s, a, b) == GroupOf(s, Exec(pat, s), a, b)

\* opt ? opt : default
OrElse(opt, default) == IF opt = << >> THEN default ELSE opt[1]

\* String.prototype.match with the g flag: the matched texts, left to right.
RECURSIVE MatchAllFrom(_, _, _)
RECURSIVE MatchAllStep(_, _, _)
MatchAllFrom(pat, s, from) == MatchAllStep(pat, s, ExecFrom(pat, s, from))

MatchAllStep(pat, s, m) ==
    IF m = << >> THEN << >>
    ELSE <<SubSeq(s, m[1], m[Len(m)] - 1)>>
         \o MatchAllFrom(pat, s, IF m[Len(m)] = m[1] THEN m[1] + 1 ELSE m[Len(m)])

MatchAll(pat, s) == MatchAllFrom(pat, s, 1)

(***************************************************************************)
(* The parsed document.  cheerio.load(html) yields a tree; the model keeps *)
(* it as the sequence of its nodes in document order (pre-order).  Node 1  *)
(* is the html element, whose parent 0 is the document itself.             *)
(***************************************************************************)

\* An element with its attributes (a function from attribute names to strings).
El(tag, parent, attr) == [tag |-> tag, parent |-> parent, attr |-> attr, text |-> ""]

\* A text node.
Tx(parent, text) == [tag |-> "#text", parent |-> parent, attr |-> << >>, text |-> text]

NoAttr == << >>

Href(h) == [href |-> h]

Id(i) == [id |-> i]

IsElement(n) == n.tag # "#text"

HasAttr(n, a) == a \in DOMAIN n.attr

\* $(el).attr(name) || '' : a missing attribute reads as the empty string.
Attr(n, a) == IF HasAttr(n, a) THEN n.attr[a] ELSE ""

\* The i-th node of the page; the empty selection (0) reads as a node without
\* attributes and text.
Node(page, i) == IF i = 0 THEN [tag |-> "", parent |-> 0, attr |-> << >>, text |-> ""] ELSE page[i]

\* Whether node i lies strictly inside node a.
RECURSIVE IsInside(_, _, _)
IsInside(page, i, a) ==
    IF i = 0 THEN FALSE
    ELSE page[i].parent = a \/ IsInside(page, page[i].parent, a)

\* The indices of the nodes satisfying Test, in document order.
RECURSIVE IndicesFrom(_, _, _)
IndicesFrom(page, P(_), i) ==
    IF i > Len(page) THEN << >>
    ELSE (IF P(i) THEN <<i>> ELSE << >>) \o IndicesFrom(page, P, i + 1)

\* $(tag, tag, ...) : the elements with one of the tags.
ByTag(page, tags) == IndicesFrom(page, LAMBDA i : page[i].tag \in tags, 1)

\* $(el).find(tag) : the descendants of a with the tag.
FindTag(page, a, tag) ==
    IndicesFrom(page, LAMBDA i : page[i].tag = tag /\ IsInside(page, i, a), 1)

\* $('#id')
ById(page, id) ==
    IndicesFrom(page, LAMBDA i : IsElement(page[i]) /\ HasAttr(page[i], "id")
                                 /\ page[i].attr["id"] = id, 1)

\* $(el).text() : the text nodes at or inside a, concatenated in document order.
RECURSIVE TextFrom(_, _, _)
TextFrom(page, a, i) ==
    IF i > Len(page) THEN ""
    ELSE (IF page[i].tag = "#text" /\ (i = a \/ IsInside(page, i, a))
          THEN page[i].text ELSE "")
         \o TextFrom(page, a, i + 1)

TextOf(page, a) == IF a = 0 THEN "" ELSE TextFrom(page, a, a)

\* $(set).text() : the texts of the elements of the set, concatenated.
RECURSIVE TextOfAll(_, _)
TextOfAll(page, set) ==
    IF set = << >> THEN "" ELSE TextOf(page, Head(set)) \o TextOfAll(page, Tail(set))

\* $(el).parent() : the parent element, 0 (the empty selection) for html.
Parent(page, i) == IF i = 0 THEN 0 ELSE page[i].parent

\* $(el).next() : the next sibling element, 0 when there is none.
NextSibling(page, i) ==
    LET sibs == {j \in (i + 1)..Len(page) :
                    IsElement(page[j]) /\ page[j].parent = page[i].parent}
    IN  IF i = 0 \/ sibs = {} THEN 0
        ELSE CHOOSE j \in sibs : \A k \in sibs : j <= k

\* $(el).closest(tags) : the nearest of the element and its ancestors with one of the tags.
RECURSIVE Closest(_, _, _)
Closest(page, i, tags) ==
    IF i = 0 THEN 0
    ELSE IF page[i].tag \in tags THEN i
    ELSE Closest(page, page[i].parent, tags)

First(seq) == IF seq = << >> THEN 0 ELSE Head(seq)

\* Optional values: undefined, or a defined value.
Undefined == << >>

Some(v) == <<v>>

(***************************************************************************)
(* The scraper instance (ollama-scraper.ts:51): its only state is the base *)
(* address and the configured converter; neither changes after             *)
(* construction.                                                           *)
(***************************************************************************)

baseUrl == "https://ollama.com"

\* A thrown value: `${error}` renders an Error as "<name>: <message>".
Error(name, message) == [name |-> name, message |-> message]

ErrorToString(e) == IF e.message = "" THEN e.name ELSE e.name \o ": " \o e.message

Ok(value) == [kind |-> "ok", value |-> value]

Throw(e) == [kind |-> "throw", error |-> e]

(***************************************************************************)
(* getModelListing (ollama-scraper.ts:89-193)                              *)
(***************************************************************************)

LineTerminator == {"\n", "\r"}

\* The two separator glyphs of the pages, U+00B7 (middle dot) and U+2022 (bullet),
\* are written with one ASCII character each in the texts of the model; neither
\* is a word character, a digit or white space, as the glyphs are not.
MiddleDot == "~"

Bullet == "@"

\* The metacharacters `new RegExp(modelName + ...)` gives a meaning to, among the
\* characters the hrefs of the model are written with.
Quantifier == {"+", "*", "?"}

\* The item before a quantifier, quantified.
Quantified(item, c) ==
    Cls(item.set, item.neg, IF c = "+" THEN 1 ELSE 0, IF c = "?" THEN 1 ELSE 0 - 1, FALSE)

\* The slug read as a regular expression (flag s): a letter is itself, "." is any
\* character, a quantifier applies to the item before it.  ok is FALSE where the
\* RegExp constructor throws a SyntaxError ("Nothing to repeat").  Defined for
\* slugs without brackets, braces, bars, anchors and backslashes.
RECURSIVE CompileSlug(_, _, _)
CompileSlug(slug, i, items) ==
    IF i > Len(slug) THEN [ok |-> TRUE, items |-> items]
    ELSE IF Ch(slug, i) \in Quantifier
    THEN IF items # << >> /\ items[Len(items)].min = 1 /\ items[Len(items)].max = 1
         THEN CompileSlug(slug, i + 1,
                 [items EXCEPT ![Len(items)] = Quantified(@, Ch(slug, i))])
         ELSE IF items # << >> /\ Ch(slug, i) = "?" /\ ~items[Len(items)].lazy
         THEN CompileSlug(slug, i + 1, [items EXCEPT ![Len(items)].lazy = TRUE])
         ELSE [ok |-> FALSE, items |-> << >>]
    ELSE CompileSlug(slug, i + 1,
            Append(items, IF Ch(slug, i) = "." THEN Cls({}, TRUE, 1, 1, FALSE)
                          ELSE One({Ch(slug, i)})))

\* The pattern when the slug compiles, the SyntaxError thrown when it does not.
DescriptionPattern(slug) ==
    IF slug.ok
    THEN Ok(slug.items \o <<Plus(SpaceChar), NotPlusLazy({}), AltOrEnd(<<"\n">>)>>)
    ELSE Throw(Error("SyntaxError", "Invalid regular expression: Nothing to repeat"))

\* new RegExp(`${modelName}\\s+(.+?)(?:\\n|$)`, 's')  (line 137)
DescriptionRegExp(modelName) == DescriptionPattern(CompileSlug(modelName, 1, << >>))

\* The variant without the word boundaries: the word wherever it occurs.
PartOfWord(word) == <<Lit(word, TRUE)>>

\* /\btools\b/i and its like (lines 145-148)
WholeWord(word) == <<WordBoundary, Lit(word, TRUE), WordBoundary>>

CapabilityWords == <<"tools", "vision", "thinking", "embedding">>

\* lines 144-148
RECURSIVE CapabilitiesFrom(_, _)
CapabilitiesFrom(fullText, k) ==
    IF k > Len(CapabilityWords) THEN << >>
    ELSE (IF Test(WholeWord(CapabilityWords[k]), fullText)
          THEN <<CapabilityWords[k]>> ELSE << >>)
         \o CapabilitiesFrom(fullText, k + 1)

\* The variant that keeps the empty list.
AlwaysDefined(list) == Some(list)

\* capabilities.length > 0 ? capabilities : undefined  (line 185)
NonEmpty(list) == IF list # << >> THEN Some(list) ELSE Undefined

\* /\b\d+\.?\d*[bmk]\b/gi  (line 152)
ParamRegExp ==
    <<WordBoundary, Plus(Digit), Opt({"."}), Star(Digit),
      One(IgnoreCase({"b", "m", "k"})), WordBoundary>>

\* The variant without the i flag: only the labels spelled "Pulls" and "Tags".
ParamLabelRegExpCaseSensitive(param) ==
    <<WordBoundary, Lit(param, TRUE), Star(SpaceChar), Alt(<<"Pulls", "Tags">>, FALSE)>>

\* new RegExp(`\\b${escaped param}\\s*(Pulls|Tags)`, 'i')  (lines 156-159): the
\* escaped token matches itself, letter case aside.
ParamLabelRegExp(param) ==
    <<WordBoundary, Lit(param, TRUE), Star(SpaceChar), Alt(<<"Pulls", "Tags">>, TRUE)>>

Contains(seq, x) == \E k \in 1..Len(seq) : seq[k] = x

\* paramMatches.forEach(...)  (lines 153-163)
RECURSIVE Parameters(_, _, _)
Parameters(fullText, paramMatches, parameters) ==
    IF paramMatches = << >> THEN parameters
    ELSE Parameters(fullText, Tail(paramMatches),
            IF /\ ~Test(ParamLabelRegExp(Head(paramMatches)), fullText)
               /\ ~Contains(parameters, ToLowerCase(Head(paramMatches)))
            THEN Append(parameters, ToLowerCase(Head(paramMatches)))
            ELSE parameters)

\* The variant without the suffix of the count.
PullsRegExpDigitsOnly ==
    <<Plus(Digit), Opt({"."}), Star(Digit), Opt({}), Star(SpaceChar), Lit("Pulls", TRUE)>>

\* /(\d+\.?\d*[KMB]?)\s*Pulls/i  (line 166)
PullsRegExp ==
    <<Plus(Digit), Opt({"."}), Star(Digit), Opt(IgnoreCase({"K", "M", "B"})),
      Star(SpaceChar), Lit("Pulls", TRUE)>>

\* /(\d+)\s*Tags/i  (line 170)
TagsRegExp == <<Plus(Digit), Star(SpaceChar), Lit("Tags", TRUE)>>

\* /Updated\s+(.+?)(?:\n|$)/i  (lines 174, 242)
UpdatedRegExp ==
    <<Lit("Updated", TRUE), Plus(SpaceChar), NotPlusLazy(LineTerminator), AltOrEnd(<<"\n">>)>>

\* updatedMatch ? updatedMatch[1].trim() : ''  (lines 175, 243)
Updated(text) == Trim(OrElse(Capture(UpdatedRegExp, text, 3, 3), ""))

\* $li.find('a[href^="/library/"]').first()  (line 114)
FirstLibraryLink(page, li) ==
    First(IndicesFrom(page,
            LAMBDA i : /\ page[i].tag = "a"
                       /\ IsInside(page, i, li)
                       /\ HasAttr(page[i], "href")
                       /\ StartsWith(page[i].attr["href"], "/library/"), 1))

\* The variant that lets tag links and "/tags" links through.
IsCatalogHrefLoose(href) == href # ""

\* The href names a catalog entry: not empty, no "/tags", no colon (line 119).
IsCatalogHref(href) == href # "" /\ ~Includes(href, "/tags") /\ ~Includes(href, ":")

\* The variant that never finds a name in the set.
SeenHasNever(seen, name) == FALSE

\* The set membership test of the de-duplication (lines 124, 261, 369).
SeenHas(seen, name) == name \in seen

\* descriptionMatch ? descriptionMatch[1].trim() : ''  (lines 137-138), or the
\* error the RegExp constructor threw.
DescriptionFrom(fullText, re) ==
    IF re.kind = "throw" THEN re
    ELSE Ok(Trim(OrElse(Capture(re.value, fullText, Len(re.value) - 1, Len(re.value) - 1), "")))

\* The description of a container (lines 127-139), given its first p element.
DescriptionOf(page, li, modelName, descElement) ==
    IF descElement # 0 THEN Ok(Trim(TextOf(page, descElement)))
    ELSE DescriptionFrom(TextOf(page, li), DescriptionRegExp(modelName))

Description(page, li, modelName) ==
    DescriptionOf(page, li, modelName, First(FindTag(page, li, "p")))

\* The record pushed for a container (lines 141-186), given its text.
ListItem(fullText, href, modelName, description) ==
    [name |-> modelName,
     description |-> description,
     parameters |-> Parameters(fullText, MatchAll(ParamRegExp, fullText), << >>),
     pulls |-> OrElse(Capture(PullsRegExp, fullText, 1, 4), "0"),
     tags |-> ParseInt(OrElse(Capture(TagsRegExp, fullText, 1, 1), "0")),
     lastUpdated |-> Updated(fullText),
     url |-> baseUrl \o href,
     capabilities |-> NonEmpty(CapabilitiesFrom(fullText, 1))]

\* The variant that puts the new record before the others.
PushFront(models, item) == <<item>> \o models

\* models.push({...})  (line 177)
Push(models, item) == Append(models, item)

\* $('li').each(...) (lines 112-187) from the k-th container on: the records
\* pushed, or the error thrown out of the callback.
RECURSIVE EachListItem(_, _, _, _, _)
RECURSIVE Container(_, _, _, _, _, _, _)
RECURSIVE Pushed(_, _, _, _, _, _, _, _)
EachListItem(page, lis, k, seenModels, models) ==
    IF k > Len(lis) THEN Ok(models)
    ELSE Container(page, lis, k, seenModels, models,
                   FirstLibraryLink(page, lis[k]),
                   Attr(Node(page, FirstLibraryLink(page, lis[k])), "href"))

\* The callback on container k, whose first library link is `link` with `href`.
Container(page, lis, k, seenModels, models, link, href) ==
    IF link = 0 \/ ~IsCatalogHref(href) \/ SeenHas(seenModels, RemoveFirst(href, "/library/"))
    THEN EachListItem(page, lis, k + 1, seenModels, models)
    ELSE Pushed(page, lis, k, seenModels, models, href, RemoveFirst(href, "/library/"),
                Description(page, lis[k], RemoveFirst(href, "/library/")))

Pushed(page, lis, k, seenModels, models, href, modelName, description) ==
    IF description.kind = "throw" THEN description
    ELSE EachListItem(page, lis, k + 1, seenModels \cup {modelName},
            Push(models, ListItem(TextOf(page, lis[k]), href, modelName, description.value)))

\* The body of getModelListing after the response text has arrived (lines 106-189).
ParseListing(page, seenModels) == EachListItem(page, ByTag(page, {"li"}), 1, seenModels, << >>)

(***************************************************************************)
(* Patterns shared by getModelDetails and getModelTags                     *)
(***************************************************************************)

\* /:([^/]+)$/  (lines 254, 362)
TagSuffixRegExp == <<Lit(":", FALSE), Cls({"/"}, TRUE, 1, 0 - 1, FALSE), Eol>>

\* href.match(/:([^/]+)$/) : the tag name, if the href has one (lines 254-258, 362-366).
TagNameOf(href) == Capture(TagSuffixRegExp, href, 2, 2)

\* /(\d+\.?\d*\s*[GMT]B)/i  (lines 269, 427)
SizeRegExp ==
    <<Plus(Digit), Opt({"."}), Star(Digit), Star(SpaceChar),
      One(IgnoreCase({"G", "M", "T"})), One(IgnoreCase({"B"}))>>

\* The variant that leaves the white space of the match in place.
SizeUnstripped(text) == OrElse(Capture(SizeRegExp, text, 1, 6), "")

\* sizeMatch ? sizeMatch[1].replace(/\s+/g, '') : ''  (lines 270, 428)
Size(text) == StripSpace(OrElse(Capture(SizeRegExp, text, 1, 6), ""))

\* /(\d+K)\s*context\s*window/i  (lines 273, 431)
ContextRegExp ==
    <<Plus(Digit), One(IgnoreCase({"K"})), Star(SpaceChar), Lit("context", TRUE),
      Star(SpaceChar), Lit("window", TRUE)>>

\* contextMatch ? contextMatch[1] : undefined  (lines 274, 432)
ContextWindow(text) == Capture(ContextRegExp, text, 1, 2)

\* Vision before Text (lines 277-282, 435-440)
\* The variant in which 'text' takes precedence over 'vision'.
InputTypeTextFirst(text) ==
    IF Test(WholeWord("text"), text) THEN Some("Text")
    ELSE IF Test(WholeWord("vision"), text) THEN Some("Vision")
    ELSE Undefined

InputType(text) ==
    IF Test(WholeWord("vision"), text) THEN Some("Vision")
    ELSE IF Test(WholeWord("text"), text) THEN Some("Text")
    ELSE Undefined

(***************************************************************************)
(* getModelDetails (ollama-scraper.ts:201-336)                             *)
(***************************************************************************)

\* /^(\d+\.?\d*[KMB]?)\s*Downloads?$/i  (line 222)
DownloadsRegExp ==
    <<Bol, Plus(Digit), Opt({"."}), Star(Digit), Opt(IgnoreCase({"K", "M", "B"})),
      Star(SpaceChar), Lit("Download", TRUE), Opt(IgnoreCase({"s"})), Eol>>

\* $('span, div').each(...) : the first element whose text matches (lines 219-227).
RECURSIVE Downloads(_, _)
RECURSIVE DownloadsStep(_, _, _)
Downloads(page, els) ==
    IF els = << >> THEN "0"
    ELSE DownloadsStep(page, els, Capture(DownloadsRegExp, TextOf(page, Head(els)), 2, 5))

\* The variant in which a later matching element overrides an earlier one.
DownloadsStepLastWins(page, els, match) ==
    IF match # << >> /\ Downloads(page, Tail(els)) = "0" THEN match[1]
    ELSE Downloads(page, Tail(els))

DownloadsStep(page, els, match) ==
    IF match # << >> THEN match[1] ELSE Downloads(page, Tail(els))

\* $('time').each(...) : the first non-empty trimmed text (lines 230-237).
RECURSIVE TimeText(_, _)
TimeText(page, els) ==
    IF els = << >> THEN ""
    ELSE IF Trim(TextOf(page, Head(els))) # "" THEN Trim(TextOf(page, Head(els)))
    ELSE TimeText(page, Tail(els))

\* The variant that prefers the phrase after "Updated" to the time element.
LastUpdatedPrefersPhrase(lastUpdated, mainContent) ==
    IF Updated(mainContent) # "" THEN Updated(mainContent) ELSE lastUpdated

\* The fallback when no time element has text (lines 240-244).
LastUpdatedOr(lastUpdated, mainContent) ==
    IF lastUpdated # "" THEN lastUpdated ELSE Updated(mainContent)

\* lines 230-244
DetailsLastUpdated(page) ==
    LastUpdatedOr(TimeText(page, ByTag(page, {"time"})), TextOfAll(page, ByTag(page, {"main"})))

\* $('a[href*="/library/"][href*=":"]')  (line 251)
VariantLinks(page) ==
    IndicesFrom(page,
        LAMBDA i : /\ page[i].tag = "a"
                   /\ HasAttr(page[i], "href")
                   /\ Includes(page[i].attr["href"], "/library/")
                   /\ Includes(page[i].attr["href"], ":"), 1)

\* /<middle dot>\s*(.+?)$/  (line 285)
VariantUpdatedRegExp ==
    <<Lit(MiddleDot, FALSE), Star(SpaceChar), NotPlusLazy(LineTerminator), Eol>>

\* $parent.length ? $parent.text() : $el.parent().text()  (line 266)
TextOfEither(page, parent, el) ==
    IF parent # 0 THEN TextOf(page, parent) ELSE TextOf(page, Parent(page, el))

\* The text around a variant link (lines 265-266).
VariantText(page, el) == TextOfEither(page, Closest(page, el, {"li", "div", "tr"}), el)

\* The record pushed for a variant link (lines 268-294), given the text around it.
Variant(tagText, tagName) ==
    [name |-> tagName,
     size |-> Size(tagText),
     contextWindow |-> ContextWindow(tagText),
     inputType |-> InputType(tagText),
     lastUpdated |-> Trim(OrElse(Capture(VariantUpdatedRegExp, tagText, 3, 3), ""))]

\* The each-loop over the variant links (lines 251-295).
RECURSIVE EachVariant(_, _, _, _)
RECURSIVE VariantLink(_, _, _, _, _)

\* The variant in which a later link of a tag name replaces the entry of the name.
VariantLinkLastWins(page, links, seenTags, models, tagMatch) ==
    IF tagMatch = << >>
    THEN EachVariant(page, Tail(links), seenTags, models)
    ELSE IF SeenHas(seenTags, tagMatch[1])
    THEN EachVariant(page, Tail(links), seenTags,
            [k \in 1..Len(models) |->
                IF models[k].name = tagMatch[1]
                THEN Variant(VariantText(page, Head(links)), tagMatch[1])
                ELSE models[k]])
    ELSE EachVariant(page, Tail(links), seenTags \cup {tagMatch[1]},
                     Append(models, Variant(VariantText(page, Head(links)), tagMatch[1])))

EachVariant(page, links, seenTags, models) ==
    IF links = << >> THEN models
    ELSE VariantLink(page, links, seenTags, models, TagNameOf(Attr(page[Head(links)], "href")))

\* The callback on the first of the links, whose href yields tagMatch.
VariantLink(page, links, seenTags, models, tagMatch) ==
    IF tagMatch = << >> \/ SeenHas(seenTags, tagMatch[1])
    THEN EachVariant(page, Tail(links), seenTags, models)
    ELSE EachVariant(page, Tail(links), seenTags \cup {tagMatch[1]},
                     Append(models, Variant(VariantText(page, Head(links)), tagMatch[1])))

\* The children of a node, in document order.
Children(page, a) == IndicesFrom(page, LAMBDA i : page[i].parent = a, 1)

SerializedAttrs == <<"id", "href", "src", "alt", "title">>

VoidTags == {"img", "br", "hr"}

RECURSIVE AttrsHtml(_, _)
AttrsHtml(n, k) ==
    IF k > Len(SerializedAttrs) THEN ""
    ELSE (IF HasAttr(n, SerializedAttrs[k])
          THEN " " \o SerializedAttrs[k] \o "=\"" \o n.attr[SerializedAttrs[k]] \o "\""
          ELSE "")
         \o AttrsHtml(n, k + 1)

\* $(el).html() : the serialization of the children of a node.
RECURSIVE OuterHtml(_, _)
RECURSIVE HtmlOfAll(_, _)
OuterHtml(page, i) ==
    IF page[i].tag = "#text" THEN page[i].text
    ELSE "<" \o page[i].tag \o AttrsHtml(page[i], 1) \o ">"
         \o (IF page[i].tag \in VoidTags THEN ""
             ELSE HtmlOfAll(page, Children(page, i)) \o "</" \o page[i].tag \o ">")

HtmlOfAll(page, nodes) ==
    IF nodes = << >> THEN ""
    ELSE OuterHtml(page, Head(nodes)) \o HtmlOfAll(page, Tail(nodes))

InnerHtml(page, a) == IF a = 0 THEN "" ELSE HtmlOfAll(page, Children(page, a))

\* The variant that puts the site's address before every source.
FullSrcAlways(src) == "https://ollama.com" \o src

\* src.startsWith('/') ? `https://ollama.com${src}` : src  (line 75)
FullSrc(src) == IF StartsWith(src, "/") THEN "https://ollama.com" \o src ELSE src

\* The replacement of the 'images' rule (lines 66-79).
ImageRule(alt, src, title) ==
    IF title # "" THEN "![" \o alt \o "](" \o FullSrc(src) \o " \"" \o title \o "\")"
    ELSE "![" \o alt \o "](" \o FullSrc(src) \o ")"

\* turndownService.turndown(readmeHtml) on the readme's nodes: text passes through,
\* an image is replaced by the 'images' rule, other elements yield their content.
RECURSIVE Markdown(_, _)
RECURSIVE MarkdownOfAll(_, _)
Markdown(page, i) ==
    IF page[i].tag = "#text" THEN page[i].text
    ELSE IF page[i].tag = "img"
    THEN ImageRule(Attr(page[i], "alt"), Attr(page[i], "src"), Attr(page[i], "title"))
    ELSE MarkdownOfAll(page, Children(page, i))

MarkdownOfAll(page, nodes) ==
    IF nodes = << >> THEN ""
    ELSE Markdown(page, Head(nodes)) \o MarkdownOfAll(page, Tail(nodes))

\* The converter is a collaborator: it returns the Markdown or it throws.
TurndownBehaviour == {"converts", "throws"}

Turndown(page, display, behaviour) ==
    IF behaviour = "throws" THEN Throw(Error("Error", "Conversion failed"))
    ELSE Ok(MarkdownOfAll(page, Children(page, display)))

\* The variant whose catch lets the conversion error escape, with no warning.
ConversionFailedRethrows(error) == [thrown |-> Some(error), warnings |-> << >>]

\* What the catch around the conversion does with the error (lines 317-320): it
\* logs a warning, and nothing is thrown on.
ConversionFailed(error) ==
    [thrown |-> Undefined,
     warnings |-> <<"Failed to convert readme to markdown: " \o ErrorToString(error)>>]

\* The variant that keeps the Markdown and drops the HTML it was made from.
ConvertedWithoutHtml(readmeHtml, markdown) ==
    [readmeHtml |-> Undefined, readmeMarkdown |-> Some(markdown),
     warnings |-> << >>, thrown |-> Undefined]

\* readmeMarkdown = turndown(...).trim(), undefined when empty (lines 311-316).
Converted(readmeHtml, markdown) ==
    [readmeHtml |-> Some(readmeHtml),
     readmeMarkdown |-> IF Trim(markdown) = "" THEN Undefined ELSE Some(Trim(markdown)),
     warnings |-> << >>, thrown |-> Undefined]

\* The catch block's effect on the readme fields (lines 317-320).
NotConverted(readmeHtml, failed) ==
    [readmeHtml |-> Some(readmeHtml), readmeMarkdown |-> Undefined,
     warnings |-> failed.warnings, thrown |-> failed.thrown]

\* lines 306-321, given $displayDiv.html()?.trim() and the outcome of the conversion.
ReadmeFrom(readmeHtml, converted) ==
    IF readmeHtml = ""
    THEN [readmeHtml |-> Undefined, readmeMarkdown |-> Undefined,
          warnings |-> << >>, thrown |-> Undefined]
    ELSE IF converted.kind = "throw"
    THEN NotConverted(readmeHtml, ConversionFailed(converted.error))
    ELSE Converted(readmeHtml, converted.value)

\* lines 302-322, given the first element with the id display (0: none).
ReadmeOf(page, behaviour, display) ==
    ReadmeFrom(Trim(InnerHtml(page, display)), Turndown(page, display, behaviour))

\* lines 297-322: readmeHtml, readmeMarkdown, the warnings logged and what escapes.
Readme(page, behaviour) == ReadmeOf(page, behaviour, First(ById(page, "display")))

\* The result and the warnings of getModelDetails, given the readme (lines 216-332).
DetailsWith(page, modelName, seenTags, readme) ==
    [warnings |-> readme.warnings,
     result |->
        IF readme.thrown # Undefined THEN Throw(readme.thrown[1])
        ELSE Ok([name |-> modelName,
                 description |-> Trim(TextOfAll(page, ById(page, "summary-content"))),
                 downloads |-> Downloads(page, ByTag(page, {"span", "div"})),
                 lastUpdated |-> DetailsLastUpdated(page),
                 readmeHtml |-> readme.readmeHtml,
                 readmeMarkdown |-> readme.readmeMarkdown,
                 models |-> EachVariant(page, VariantLinks(page), seenTags, << >>)])]

\* The body of getModelDetails after the response text has arrived (lines 213-332):
\* the result and the warnings logged on the way.
ParseDetails(page, modelName, seenTags, behaviour) ==
    DetailsWith(page, modelName, seenTags, Readme(page, behaviour))

(***************************************************************************)
(* getModelTags (ollama-scraper.ts:343-482)                                *)
(***************************************************************************)

\* Whether the selector `a[href*="/library/${modelName}:"]` (line 359) parses.  A
\* double quote in the slug closes the attribute value early and what follows is
\* no selector.  Defined for slugs without backslashes and brackets.
SelectorParses(modelName) == ~Includes(modelName, "\"")

\* The variant that selects the tag links of every model.
TagLinksOfAnyModel(page, modelName) ==
    IndicesFrom(page,
        LAMBDA i : /\ page[i].tag = "a"
                   /\ HasAttr(page[i], "href")
                   /\ Includes(page[i].attr["href"], "/library/")
                   /\ Includes(page[i].attr["href"], ":"), 1)

\* $(`a[href*="/library/${modelName}:"]`)  (line 359)
TagLinks(page, modelName) ==
    IndicesFrom(page,
        LAMBDA i : /\ page[i].tag = "a"
                   /\ HasAttr(page[i], "href")
                   /\ Includes(page[i].attr["href"], "/library/" \o modelName \o ":"), 1)

\* siblingText.includes('GB') || ... (lines 380, 393, 412)
HasSizeUnit(text) == Includes(text, "GB") \/ Includes(text, "MB") \/ Includes(text, "TB")

\* The depth of the walk up the ancestors (line 388).
MaxDepth == 3

\* The length a container's text must stay under (line 394).
MaxContainerText == 200

\* The number of following elements scanned (line 407).
MaxForward == 3

\* The length a following element's text must stay under (line 414).
MaxForwardText == 100

\* text, when it carries a size unit and is shorter than the limit; else ''.
Accepted(text, limit) == IF HasSizeUnit(text) /\ Len(text) < limit THEN text ELSE ""

\* The variant that never looks at the next sibling.
SiblingSkipped(page, link) == ""

\* Stage 1: the immediate next sibling, whatever its length (lines 377-383).
SiblingText(page, link) ==
    IF HasSizeUnit(TextOf(page, NextSibling(page, link)))
    THEN TextOf(page, NextSibling(page, link)) ELSE ""

\* Stage 2: up the ancestors (lines 386-401).
RECURSIVE ContainerText(_, _, _)
ContainerText(page, container, maxDepth) ==
    IF container = 0 \/ maxDepth <= 0 THEN ""
    ELSE IF Accepted(TextOf(page, container), MaxContainerText) # ""
    THEN TextOf(page, container)
    ELSE ContainerText(page, Parent(page, container), maxDepth - 1)

\* Stage 3: the following elements (lines 404-420).
RECURSIVE ForwardText(_, _, _)
ForwardText(page, current, i) ==
    IF i >= MaxForward \/ NextSibling(page, current) = 0 THEN ""
    ELSE IF Accepted(TextOf(page, NextSibling(page, current)), MaxForwardText) # ""
    THEN TextOf(page, NextSibling(page, current))
    ELSE ForwardText(page, NextSibling(page, current), i + 1)

\* The variant in which a later stage overrides an earlier one.
LastStageWins(text, otherwise) == IF otherwise # "" THEN otherwise ELSE text

\* if (!text) { ...the next stage... }  (lines 386, 404)
IfEmpty(text, otherwise) == IF text # "" THEN text ELSE otherwise

\* The metadata text of a tag link: the first stage that yields a text (lines 374-420).
MetadataText(page, link) ==
    IfEmpty(SiblingText(page, link),
            IfEmpty(ContainerText(page, Parent(page, link), MaxDepth),
                    ForwardText(page, link, 0)))

\* The length of a digest (line 423).
DigestLength == 12

\* /\b([a-f0-9]{12})\b/  (line 423)
DigestRegExp ==
    <<WordBoundary, Times(Chars("abcdef") \cup Digit, DigestLength), WordBoundary>>

\* The variant without the word boundaries: twelve hex characters wherever they are.
DigestAnywhere(text) ==
    OrElse(Capture(<<Times(Chars("abcdef") \cup Digit, DigestLength)>>, text, 1, 1), "")

\* digestMatch ? digestMatch[1] : ''  (line 424)
Digest(text) == OrElse(Capture(DigestRegExp, text, 2, 2), "")

\* /(\d+\s*(?:hour|day|week|month|year)s?\s*ago)/i  (line 444)
AgoRegExp ==
    <<Plus(Digit), Star(SpaceChar), Alt(<<"hour", "day", "week", "month", "year">>, TRUE),
      Opt(IgnoreCase({"s"})), Star(SpaceChar), Lit("ago", TRUE)>>

\* /<bullet>\s*([^<bullet>]+?)\s*$/  (line 445)
BulletRegExp ==
    <<Lit(Bullet, FALSE), Star(SpaceChar), NotPlusLazy({Bullet}), Star(SpaceChar), Eol>>

\* /(\d{1,2}\s*\w+\s*ago)/i  (line 446)
CompactAgoRegExp ==
    <<Cls(Digit, FALSE, 1, 2, FALSE), Star(SpaceChar), Plus(WordChar), Star(SpaceChar),
      Lit("ago", TRUE)>>

\* The variant that consults the third pattern before the second.
FirstMatchCompactBeforeBullet(first, second, third) ==
    IF first # << >> THEN first[1]
    ELSE IF third # << >> THEN third[1]
    ELSE IF second # << >> THEN second[1]
    ELSE ""

\* The capture of the first pattern that matched, '' when none did (lines 449-456).
FirstMatch(first, second, third) ==
    IF first # << >> THEN first[1]
    ELSE IF second # << >> THEN second[1]
    ELSE IF third # << >> THEN third[1]
    ELSE ""

\* The first date pattern that matches (lines 443-456).
ModifiedAt(text) ==
    Trim(FirstMatch(Capture(AgoRegExp, text, 1, 6),
                    Capture(BulletRegExp, text, 3, 3),
                    Capture(CompactAgoRegExp, text, 1, 5)))

\* The variant that looks for 'latest' in the metadata text of the link.
AliasesFromMetadata(page, link, tagName) ==
    IF tagName # "latest" /\ Includes(ToLowerCase(MetadataText(page, link)), "latest")
    THEN Some(<<"latest">>)
    ELSE Undefined

\* lines 459-465
Aliases(page, link, tagName) ==
    IF tagName # "latest" /\ Includes(ToLowerCase(TextOf(page, link)), "latest")
    THEN Some(<<"latest">>)
    ELSE Undefined

\* The record pushed for a tag link (lines 422-475), given its metadata text.
Tag(text, tagName, aliases) ==
    [name |-> tagName,
     size |-> Size(text),
     digest |-> Digest(text),
     modifiedAt |-> ModifiedAt(text),
     contextWindow |-> ContextWindow(text),
     inputType |-> InputType(text),
     aliases |-> aliases]

\* The each-loop over the tag links (lines 359-476).
RECURSIVE EachTagLink(_, _, _, _)
RECURSIVE TagLink(_, _, _, _, _)
EachTagLink(page, links, seenTags, tags) ==
    IF links = << >> THEN tags
    ELSE TagLink(page, links, seenTags, tags, TagNameOf(Attr(page[Head(links)], "href")))

\* The callback on the first of the links, whose href yields tagMatch.
TagLink(page, links, seenTags, tags, tagMatch) ==
    IF tagMatch = << >> \/ SeenHas(seenTags, tagMatch[1])
    THEN EachTagLink(page, Tail(links), seenTags, tags)
    ELSE EachTagLink(page, Tail(links), seenTags \cup {tagMatch[1]},
            Append(tags, Tag(MetadataText(page, Head(links)), tagMatch[1],
                             Aliases(page, Head(links), tagMatch[1]))))

\* The body of getModelTags after the response text has arrived (lines 353-478).
ParseTags(page, modelName, seenTags) ==
    IF ~SelectorParses(modelName)
    THEN Throw(Error("Error", "Attribute selector didn't terminate"))
    ELSE Ok(EachTagLink(page, TagLinks(page, modelName), seenTags, << >>))

(***************************************************************************)
(* The operations as asynchronous calls.  A call is invoked, issues its    *)
(* request and suspends at `await fetch(url)`; the transport rejects or    *)
(* resolves with a status; on a success status the call suspends again at  *)
(* `await response.text()`, which rejects or resolves with the body, and   *)
(* the rest of the body of the operation runs without suspending.          *)
(***************************************************************************)

Operations == {"getModelListing", "getModelDetails", "getModelTags"}

\* application/x-www-form-urlencoded, as URLSearchParams serializes a value.
FormEncodeCh(c) ==
    IF c \in WordChar \cup {"*", "-", "."} THEN c
    ELSE CASE c = " " -> "+"
           [] c = "&" -> "%26"
           [] c = "+" -> "%2B"
           [] c = "=" -> "%3D"
           [] c = "?" -> "%3F"
           [] c = "/" -> "%2F"
           [] c = ":" -> "%3A"
           [] c = "#" -> "%23"
           [] c = "%" -> "%25"
           [] c = "\"" -> "%22"

RECURSIVE FormEncode(_)
FormEncode(s) == IF s = "" THEN "" ELSE FormEncodeCh(Head(s)) \o FormEncode(Tail(s))

\* The variant in which an argument counts as soon as it is given.
GivenWhenDefined(opt) == opt # Undefined

\* An optional argument counts when it is given and not the empty string.
Given(opt) == opt # Undefined /\ opt[1] # ""

\* URL.prototype.toString for the search parameters set: "?" and the pairs joined by "&".
RECURSIVE JoinParams(_)
JoinParams(params) ==
    IF Len(params) = 1 THEN params[1] ELSE params[1] \o "&" \o JoinParams(Tail(params))

SearchString(params) == IF params = << >> THEN "" ELSE "?" \o JoinParams(params)

\* The address requested (lines 91-97, 202-204, 344).
RequestUrl(op, args) ==
    CASE op = "getModelListing" ->
            baseUrl \o "/library"
            \o SearchString(
                  (IF Given(args.query) THEN <<"q=" \o FormEncode(args.query[1])>> ELSE << >>)
                  \o (IF Given(args.sort) THEN <<"sort=" \o FormEncode(args.sort[1])>>
                      ELSE << >>))
      [] op = "getModelDetails" ->
            IF Given(args.tag)
            THEN baseUrl \o "/library/" \o args.modelName \o ":" \o args.tag[1]
            ELSE baseUrl \o "/library/" \o args.modelName
      [] op = "getModelTags" -> baseUrl \o "/library/" \o args.modelName \o "/tags"

\* The cached variant: a request is skipped when another call fetched the address.
IssueFetchCached(all, c, url) ==
    IF \E d \in DOMAIN all : d # c /\ Contains(all[d].requests, url)
    THEN all[c].requests
    ELSE Append(all[c].requests, url)

\* `await fetch(url)` (lines 100, 207, 347): the requests of call c after it.
IssueFetch(all, c, url) == Append(all[c].requests, url)

\* The variant that takes every status for a success.
ResponseOkAlways(status) == TRUE

\* response.ok
ResponseOk(status) == status >= 200 /\ status <= 299

\* throw new Error(`HTTP error! status: ${response.status}`)  (lines 102, 209, 349)
HttpError(status) == Error("Error", "HTTP error! status: " \o NatToString(status))

\* The operation's name in the message of the wrapped error (lines 191, 334, 480).
FailurePrefix(op) ==
    CASE op = "getModelListing" -> "Failed to fetch model listing: "
      [] op = "getModelDetails" -> "Failed to fetch model details: "
      [] op = "getModelTags" -> "Failed to fetch model tags: "

Pending == [kind |-> "pending"]

Resolved(value) == [kind |-> "resolved", value |-> value]

\* catch (error) { throw new Error(`Failed to fetch ...: ${error}`) }
Rejected(op, error) ==
    [kind |-> "rejected", message |-> FailurePrefix(op) \o ErrorToString(error)]

\* The variant whose de-duplication set outlives the call: it starts with the
\* names the calls that have returned put into their results.
SharedSeenSet(all) ==
    UNION {{all[d].outcome.value[k].name : k \in 1..Len(all[d].outcome.value)} :
            d \in {e \in DOMAIN all :
                    /\ all[e].outcome.kind = "resolved"
                    /\ all[e].op \in {"getModelListing", "getModelTags"}}}

\* new Set<string>() (lines 109, 248, 356): the de-duplication set a call starts
\* with, whatever the other calls of the instance have done.
NewSeenSet(all) == {}

\* return value / catch (error) { throw new Error(...) }  (lines 189-192, 324-335,
\* 478-481): the outcome of the promise.
Settle(op, result) ==
    IF result.kind = "throw" THEN Rejected(op, result.error) ELSE Resolved(result.value)

\* The outcome of an operation and the warnings it logged.
Settled(op, run) == [outcome |-> Settle(op, run.result), warnings |-> run.warnings]

\* An operation that logs nothing.
Silent(result) == [result |-> result, warnings |-> << >>]

\* The rest of an operation once the body text has arrived: the promise's outcome
\* and the warnings logged.
Continue(op, args, page, behaviour, seen) ==
    CASE op = "getModelListing" -> Settled(op, Silent(ParseListing(page, seen)))
      [] op = "getModelDetails" ->
            Settled(op, ParseDetails(page, args.modelName, seen, behaviour))
      [] op = "getModelTags" -> Settled(op, Silent(ParseTags(page, args.modelName, seen)))

NoArgs == [none |-> TRUE]

NoPage == << >>

NoError == Error("", "")

Idle ==
    [pc |-> "idle", op |-> "none", args |-> NoArgs, requests |-> << >>,
     status |-> 0, failure |-> NoError, page |-> NoPage, behaviour |-> "converts",
     warnings |-> << >>, outcome |-> Pending]

\* The call after its operation has run on the page.
Finished(call, page, behaviour, run) ==
    [call EXCEPT !.pc = "done", !.page = page, !.behaviour = behaviour,
                 !.warnings = run.warnings, !.outcome = run.outcome]

VARIABLES calls

vars == <<calls>>

\* A call of an operation: the request is issued and the call suspends.
Invoke(c, op, args) ==
    /\ calls[c].pc = "idle"
    /\ calls' = [calls EXCEPT ![c] =
                    [@ EXCEPT !.pc = "fetching", !.op = op, !.args = args,
                              !.requests = IssueFetch(calls, c, RequestUrl(op, args))]]

\* The transport fails (network error, timeout): fetch rejects.
FetchRejects(c, error) ==
    /\ calls[c].pc = "fetching"
    /\ calls' = [calls EXCEPT ![c] =
                    [@ EXCEPT !.pc = "done", !.failure = error,
                              !.outcome = Rejected(calls[c].op, error)]]

\* fetch resolves with a response of some status.
FetchResolves(c, status) ==
    /\ calls[c].pc = "fetching"
    /\ calls' = [calls EXCEPT ![c] =
                    IF ResponseOk(status)
                    THEN [@ EXCEPT !.pc = "reading", !.status = status]
                    ELSE [@ EXCEPT !.pc = "done", !.status = status,
                                   !.outcome = Rejected(calls[c].op, HttpError(status))]]

\* Reading the body fails.
TextRejects(c, error) ==
    /\ calls[c].pc = "reading"
    /\ calls' = [calls EXCEPT ![c] =
                    [@ EXCEPT !.pc = "done", !.failure = error,
                              !.outcome = Rejected(calls[c].op, error)]]

\* The converter is consulted by getModelDetails only.
BehavioursOf(op) == IF op = "getModelDetails" THEN TurndownBehaviour ELSE {"converts"}

\* The body text arrives and the operation runs to its end.
TextResolves(c, page, behaviour) ==
    /\ calls[c].pc = "reading"
    /\ behaviour \in BehavioursOf(calls[c].op)
    /\ calls' = [calls EXCEPT ![c] =
                    Finished(@, page, behaviour,
                             Continue(@.op, @.args, page, behaviour, NewSeenSet(calls)))]

(***************************************************************************)
(* The pages, arguments and responses the specifications draw from.        *)
(***************************************************************************)

\* A catalog page: two containers of the same model, one of another.
PageCatalog ==
    <<El("html", 0, NoAttr), El("body", 1, NoAttr), El("ul", 2, NoAttr),
      El("li", 3, NoAttr), El("a", 4, Href("/library/m")), Tx(5, "m"),
      Tx(4, " A model 7b 100K Pulls"),
      El("li", 3, NoAttr), El("a", 8, Href("/library/m")), Tx(9, "m"),
      El("li", 3, NoAttr), El("a", 11, Href("/library/n")), Tx(12, "n")>>

\* A model page: tag links (one of them twice) with their metadata, and a readme.
PageModel ==
    <<El("html", 0, NoAttr), El("body", 1, NoAttr),
      El("div", 2, NoAttr), El("a", 3, Href("/library/m:latest")), Tx(4, "latest"),
      El("span", 3, NoAttr), Tx(6, "4.1GB abc123def456 2 hours ago"),
      El("div", 2, NoAttr), El("a", 8, Href("/library/m:latest")), Tx(9, "latest"),
      El("div", 2, NoAttr), El("a", 11, Href("/library/m:7b")), Tx(12, "7b"),
      El("div", 2, Id("display")), El("p", 14, NoAttr), Tx(15, "Readme")>>

\* A page with nothing in it.
PageEmpty == <<El("html", 0, NoAttr), El("body", 1, NoAttr)>>

\* A catalog page whose entry has a slug that is no regular expression.
PageCpp ==
    <<El("html", 0, NoAttr), El("body", 1, NoAttr),
      El("li", 2, NoAttr), El("a", 3, Href("/library/c++")), Tx(4, "c++"), Tx(3, " compiler")>>

\* A page whose containers hold links, none of them to a catalog entry.
PageUnrelated ==
    <<El("html", 0, NoAttr), El("body", 1, NoAttr), El("ul", 2, NoAttr),
      El("li", 3, NoAttr), El("a", 4, Href("/blog/news")), Tx(5, "News 7b"),
      El("li", 3, NoAttr), El("a", 7, Href("/library/m:7b")), Tx(8, "m:7b"),
      El("li", 3, NoAttr), El("a", 10, Href("/library/m/tags")), Tx(11, "Tags")>>

\* A page cut off inside its first container.
PageTruncated ==
    <<El("html", 0, NoAttr), El("body", 1, NoAttr), El("ul", 2, NoAttr),
      El("li", 3, NoAttr), Tx(4, "No models fo")>>

\* A model page with variant links and no readme container.
PageNoReadme ==
    <<El("html", 0, NoAttr), El("body", 1, NoAttr),
      El("div", 2, NoAttr), El("a", 3, Href("/library/m:7b")), Tx(4, "7b 4.1GB"),
      El("div", 2, NoAttr), El("a", 6, Href("/library/m:13b")), Tx(7, "13b")>>

\* A model page whose readme container holds white space only.
PageBlankReadme ==
    <<El("html", 0, NoAttr), El("body", 1, NoAttr),
      El("div", 2, Id("display")), Tx(3, " \n ")>>

\* A model page whose readme is markup without content.
PageHollowReadme ==
    <<El("html", 0, NoAttr), El("body", 1, NoAttr),
      El("div", 2, Id("display")), El("p", 3, NoAttr)>>

\* A model page whose readme is an image with a site-relative address.
PageImageReadme ==
    <<El("html", 0, NoAttr), El("body", 1, NoAttr),
      El("a", 2, Href("/library/m:7b")), Tx(3, "7b"),
      El("div", 2, Id("display")),
      El("img", 5, [a \in {"src", "alt"} |-> IF a = "src" THEN "/logo.png" ELSE "Logo"])>>

\* The pages of the calls that run side by side.
Pages == {PageCatalog, PageEmpty}

\* A catalog page whose only entry is one container on a single line.
PageScenarioA ==
    <<El("html", 0, NoAttr), El("body", 1, NoAttr),
      El("li", 2, NoAttr), El("a", 3, Href("/library/test-model")), Tx(4, "test-model"),
      Tx(3, " Test description Parameters: 7b, 13b 100K Pulls 5 Tags Updated 2 hours ago")>>

\* The same entry with each of its parts on a line of its own.
PageScenarioALines ==
    <<El("html", 0, NoAttr), El("body", 1, NoAttr),
      El("li", 2, NoAttr), El("a", 3, Href("/library/test-model")), Tx(4, "test-model"),
      Tx(3, "\n Test description\n Parameters: 7b, 13b\n 100K Pulls\n 5 Tags\n Updated 2 hours ago\n")>>

\* A catalog page whose entries are in no order of name, pulls or date, one of
\* them in a list inside another entry.
PageUnsorted ==
    <<El("html", 0, NoAttr), El("body", 1, NoAttr), El("ul", 2, NoAttr),
      El("li", 3, NoAttr), El("a", 4, Href("/library/z")), Tx(5, "z"),
      Tx(4, " Last 5 Pulls Updated 2 days ago"),
      El("ul", 4, NoAttr),
      El("li", 8, NoAttr), El("a", 9, Href("/library/a")), Tx(10, "a"),
      Tx(9, " First 900K Pulls Updated 1 year ago"),
      El("li", 3, NoAttr), El("a", 13, Href("/library/m")), Tx(14, "m"),
      Tx(13, " Middle 70 Pulls Updated 3 hours ago")>>

StructuralPages ==
    {PageCatalog, PageModel, PageEmpty, PageCpp, PageUnrelated, PageTruncated,
     PageNoReadme, PageBlankReadme, PageHollowReadme, PageImageReadme,
     PageScenarioA, PageScenarioALines, PageUnsorted}

\* The statuses of the responses to the calls that run side by side.
Statuses == {200, 404}

\* The statuses of the responses to a call on its own.
WideStatuses == {200, 204, 404, 500}

TransportErrors == {Error("FetchError", "network timeout")}

NoOptions == [query |-> Undefined, sort |-> Undefined]

\* The arguments of the calls that run side by side.
ArgsOf(op) ==
    CASE op = "getModelListing" -> {NoOptions}
      [] op = "getModelDetails" -> {[modelName |-> "m", tag |-> Undefined]}
      [] op = "getModelTags" -> {[modelName |-> "m"]}

\* The arguments of a call on its own: queries and sort orders, slugs with
\* characters that mean something to a regular expression or a selector.
WideArgsOf(op) ==
    CASE op = "getModelListing" ->
            [query : {Undefined, Some(""), Some("a b")}, sort : {Undefined, Some("newest")}]
      [] op = "getModelDetails" ->
            [modelName : {"m", "c++"}, tag : {Undefined, Some(""), Some("7b")}]
      [] op = "getModelTags" -> [modelName : {"m", "c++", "a\"b"}]

\* The most pieces a generated text is made of.
MaxChunks == 3

\* The texts made of one to MaxChunks of the pieces.
RECURSIVE Concat(_)
Concat(pieces) == IF pieces = << >> THEN "" ELSE Head(pieces) \o Concat(Tail(pieces))

TextsOf(pieces) == {Concat(t) : t \in UNION {[1..k -> pieces] : k \in 1..MaxChunks}}

\* The pieces of a tag's metadata: runs of hex digits, of other letters, separators.
TagChunks == {"abc123", "def456", "ABC123", "xyz", "0", " ", "-"}

\* A tags page with one tag link followed by its metadata.
TagPage(text) ==
    <<El("html", 0, NoAttr), El("body", 1, NoAttr), El("div", 2, NoAttr),
      El("a", 3, Href("/library/m:latest")), Tx(4, "latest"),
      El("span", 3, NoAttr), Tx(6, "1GB " \o text)>>

TagPages == {TagPage(text) : text \in TextsOf(TagChunks)}

\* The pieces of a catalog container's text: size tokens and labels.
ListingChunks == {"7b ", "7B ", "13b ", "Pulls ", "pulls ", "TAGS ", " "}

\* A catalog page with one container: the link and the text after it.
ListingPage(text) ==
    <<El("html", 0, NoAttr), El("body", 1, NoAttr), El("ul", 2, NoAttr),
      El("li", 3, NoAttr), El("a", 4, Href("/library/m")), Tx(5, "m"), Tx(4, " " \o text)>>

ListingPages == {ListingPage(text) : text \in TextsOf(ListingChunks)}

(***************************************************************************)
(* Spec: calls of the three operations on one instance, interleaved at     *)
(* their suspension points.                                                *)
(***************************************************************************)

\* The number of calls made on the instance.
MaxCalls == 2

CallIds == 1..MaxCalls

Init == calls = [c \in CallIds |-> Idle]

Next ==
    \E c \in CallIds :
        \/ \E op \in Operations : \E args \in ArgsOf(op) : Invoke(c, op, args)
        \/ \E error \in TransportErrors : FetchRejects(c, error)
        \/ \E status \in Statuses : FetchResolves(c, status)
        \/ \E error \in TransportErrors : TextRejects(c, error)
        \/ \E page \in Pages : \E behaviour \in TurndownBehaviour :
                TextResolves(c, page, behaviour)

Spec == Init /\ [][Next]_vars

(***************************************************************************)
(* SpecPages: one call, over the wide arguments and the structural pages.  *)
(***************************************************************************)

InitOne == calls = [c \in {1} |-> Idle]

NextPages ==
    \/ \E op \in Operations : \E args \in WideArgsOf(op) : Invoke(1, op, args)
    \/ \E error \in TransportErrors : FetchRejects(1, error)
    \/ \E status \in WideStatuses : FetchResolves(1, status)
    \/ \E error \in TransportErrors : TextRejects(1, error)
    \/ \E page \in StructuralPages : \E behaviour \in TurndownBehaviour :
            TextResolves(1, page, behaviour)

SpecPages == InitOne /\ [][NextPages]_vars

(***************************************************************************)
(* SpecTagText: one call of getModelTags, over the generated metadata.     *)
(***************************************************************************)

NextTagText ==
    \/ Invoke(1, "getModelTags", [modelName |-> "m"])
    \/ \E error \in TransportErrors : FetchRejects(1, error)
    \/ \E status \in WideStatuses : FetchResolves(1, status)
    \/ \E error \in TransportErrors : TextRejects(1, error)
    \/ \E page \in TagPages : TextResolves(1, page, "converts")

SpecTagText == InitOne /\ [][NextTagText]_vars

(***************************************************************************)
(* SpecListingText: one call of getModelListing, over the generated        *)
(* container texts.                                                        *)
(***************************************************************************)

NextListingText ==
    \/ Invoke(1, "getModelListing", NoOptions)
    \/ \E error \in TransportErrors : FetchRejects(1, error)
    \/ \E status \in WideStatuses : FetchResolves(1, status)
    \/ \E error \in TransportErrors : TextRejects(1, error)
    \/ \E page \in ListingPages : TextResolves(1, page, "converts")

SpecListingText == InitOne /\ [][NextListingText]_vars

(***************************************************************************)
(* SpecCascade: one call of getModelTags, over tag rows whose metadata     *)
(* lies in the siblings of the link, in its ancestors, or nowhere.         *)
(***************************************************************************)

\* Text without a size unit, a digit or a date in it.
Words == "lorem ipsum dolor sit amet consectetur adipiscing "

Filler == Words \o Words \o Words \o Words \o Words

\* The text filled up to n characters.
FilledTo(text, n) == SubSeq(text \o Filler, 1, n)

\* The most elements that follow the link in its row.
MaxSpans == 4

\* What an element after the link holds: no size, a size in a text just short
\* enough for a following element, or a size in a text just too long for one.
SpanKinds == {"plain", "short", "long"}

\* The text of the j-th element after the link: its size names its place.
SpanText(kind, j) ==
    CASE kind = "plain" -> "-"
      [] kind = "short" ->
            FilledTo(NatToString(j) \o "MB abcdef00000" \o NatToString(j) \o " "
                        \o NatToString(j) \o " days ago ", MaxForwardText - 1)
      [] kind = "long" ->
            FilledTo(NatToString(j) \o "MB abcdef00000" \o NatToString(j) \o " "
                        \o NatToString(j) \o " days ago ", MaxForwardText)

\* The elements after the link and their texts; the first is node number at.
RECURSIVE SpanNodes(_, _, _, _)
SpanNodes(kinds, j, row, at) ==
    IF j > Len(kinds) THEN << >>
    ELSE <<El("span", row, NoAttr), Tx(at, SpanText(kinds[j], j))>>
            \o SpanNodes(kinds, j + 1, row, at + 2)

RECURSIVE SpansLength(_, _)
SpansLength(kinds, j) ==
    IF j > Len(kinds) THEN 0 ELSE Len(SpanText(kinds[j], j)) + SpansLength(kinds, j + 1)

\* The text before the link that brings the text of the row to the length.
PadFor(kinds, length) ==
    IF length > 6 + SpansLength(kinds, 1)
    THEN SubSeq(Filler, 1, length - 6 - SpansLength(kinds, 1)) ELSE ""

\* A tags page with one tag link in a row inside two more containers; the body,
\* the fourth ancestor of the link, always holds a size.
CascadePage(kinds, pad, mid, outer) ==
    <<El("html", 0, NoAttr), El("body", 1, NoAttr), Tx(2, "5TB "),
      El("div", 2, NoAttr), Tx(4, outer),
      El("div", 4, NoAttr), Tx(6, mid),
      El("div", 6, NoAttr), Tx(8, pad),
      El("a", 8, Href("/library/m:latest")), Tx(10, "latest")>>
        \o SpanNodes(kinds, 1, 8, 12)

\* The lengths the text of the row is brought to, when it is not longer already.
RowLengths == {0, MaxContainerText - 1, MaxContainerText}

CascadePages ==
    {CascadePage(kinds, PadFor(kinds, length), mid, outer) :
        kinds \in UNION {[1..n -> SpanKinds] : n \in 0..MaxSpans},
        length \in RowLengths, mid \in {"", "3TB "}, outer \in {"", "4TB "}}
        \ {CascadePage(kinds, PadFor(kinds, length), "3TB ", "4TB ") :
                kinds \in UNION {[1..n -> SpanKinds] : n \in 0..MaxSpans},
                length \in RowLengths}

NextCascade ==
    \/ Invoke(1, "getModelTags", [modelName |-> "m"])
    \/ \E error \in TransportErrors : FetchRejects(1, error)
    \/ \E status \in WideStatuses : FetchResolves(1, status)
    \/ \E error \in TransportErrors : TextRejects(1, error)
    \/ \E page \in CascadePages \cup {PageModel} : TextResolves(1, page, "converts")

SpecCascade == InitOne /\ [][NextCascade]_vars

(***************************************************************************)
(* SpecSizeText: one call of getModelTags or getModelDetails, over the     *)
(* generated texts next to a tag link.                                     *)
(***************************************************************************)

\* The pieces of a size: digits, a point, white space, units in either case.
SizeChunks == {"4", ".", "5 ", "GB", "gb", "TB", "KB"}

\* A page with one tag link and the text after it, in one container.
SizePage(text) ==
    <<El("html", 0, NoAttr), El("body", 1, NoAttr), El("div", 2, NoAttr),
      El("a", 3, Href("/library/m:v1")), Tx(4, "v"),
      El("span", 3, NoAttr), Tx(6, text)>>

SizePages == {SizePage(text) : text \in TextsOf(SizeChunks)}

\* The page of the test of unusual size formats, with the white space between
\* its elements (src/unnamed/part_007:525-536).
PageScenarioE ==
    <<El("html", 0, NoAttr), El("body", 1, NoAttr),
      Tx(2, "\n            "),
      El("a", 2, Href("/library/m:tiny")), Tx(4, "tiny"),
      Tx(2, "\n            "),
      El("div", 2, NoAttr),
      Tx(7, "500MB " \o MiddleDot \o " abc123def456 " \o MiddleDot \o " 1 hour ago"),
      Tx(2, "\n            "),
      El("a", 2, Href("/library/m:huge")), Tx(10, "huge"),
      Tx(2, "\n            "),
      El("div", 2, NoAttr),
      Tx(13, "1.5TB " \o MiddleDot \o " def456abc789 " \o MiddleDot \o " 2 days ago"),
      Tx(2, "\n            "),
      El("a", 2, Href("/library/m:unknown")), Tx(16, "unknown"),
      Tx(2, "\n            "),
      El("div", 2, NoAttr),
      Tx(19, "? KB " \o MiddleDot \o " 789abcdef012 " \o MiddleDot \o " 1 week ago"),
      Tx(2, "\n          \n        \n      ")>>

NextSizeText ==
    \/ Invoke(1, "getModelTags", [modelName |-> "m"])
    \/ Invoke(1, "getModelDetails", [modelName |-> "m", tag |-> Undefined])
    \/ \E error \in TransportErrors : FetchRejects(1, error)
    \/ \E status \in WideStatuses : FetchResolves(1, status)
    \/ \E error \in TransportErrors : TextRejects(1, error)
    \/ \E page \in SizePages \cup {PageScenarioE} : TextResolves(1, page, "converts")

SpecSizeText == InitOne /\ [][NextSizeText]_vars

(***************************************************************************)
(* SpecCapabilityText: one call of getModelListing, over container texts   *)
(* made of the capability words and of what turns them into other words.   *)
(***************************************************************************)

CapabilityChunks == {"tools", "Vision", "pro", "thinking", "embedding", " ", "s"}

\* The container texts of the capability tests (src/unnamed/part_007:590-653).
CapabilityPhrases == {"has computer vision", "provisions for revisioning"}

CapabilityPages ==
    {ListingPage(text) : text \in TextsOf(CapabilityChunks) \cup CapabilityPhrases}

NextCapabilityText ==
    \/ Invoke(1, "getModelListing", NoOptions)
    \/ \E error \in TransportErrors : FetchRejects(1, error)
    \/ \E status \in WideStatuses : FetchResolves(1, status)
    \/ \E error \in TransportErrors : TextRejects(1, error)
    \/ \E page \in CapabilityPages : TextResolves(1, page, "converts")

SpecCapabilityText == InitOne /\ [][NextCapabilityText]_vars

(***************************************************************************)
(* SpecFields: one call of getModelListing, over containers in which each  *)
(* part is there or not, laid out as the test fixtures lay them out        *)
(* (src/src/__tests__/helpers/mock-helpers.ts:487-515).                    *)
(***************************************************************************)

\* The parts of a container after its link and its description.
FieldParts == {"capabilities", "parameters", "pulls", "tags", "updated"}

\* How the description is there: not at all, in a p element, as a line of text.
DescriptionKinds == {"none", "p", "line"}

\* The line of a part, when the part is there.
FieldLine(part, parts, line) == IF part \in parts THEN "  " \o line \o "\n" ELSE ""

FieldLines(kind, parts) ==
    (IF kind = "line" THEN "  A model\n" ELSE "")
    \o FieldLine("capabilities", parts, "Capabilities: tools")
    \o FieldLine("parameters", parts, "Parameters: 7b")
    \o FieldLine("pulls", parts, "100K Pulls")
    \o FieldLine("tags", parts, "5 Tags")
    \o FieldLine("updated", parts, "Updated 2 hours ago")

\* A catalog page with one container holding the parts.
FieldPage(kind, parts) ==
    <<El("html", 0, NoAttr), El("body", 1, NoAttr), El("li", 2, NoAttr),
      Tx(3, "\n  "), El("a", 3, Href("/library/m")), Tx(5, "m")>>
    \o (IF kind = "p" THEN <<Tx(3, "\n  "), El("p", 3, NoAttr), Tx(8, "A model")>>
        ELSE << >>)
    \o <<Tx(3, "\n" \o FieldLines(kind, parts))>>

FieldPages == {FieldPage(kind, parts) : kind \in DescriptionKinds, parts \in SUBSET FieldParts}

NextFields ==
    \/ Invoke(1, "getModelListing", NoOptions)
    \/ \E error \in TransportErrors : FetchRejects(1, error)
    \/ \E status \in WideStatuses : FetchResolves(1, status)
    \/ \E error \in TransportErrors : TextRejects(1, error)
    \/ \E page \in FieldPages : TextResolves(1, page, "converts")

SpecFields == InitOne /\ [][NextFields]_vars

(***************************************************************************)
(* SpecImages: one call of getModelDetails, over readmes that hold an      *)
(* image.                                                                  *)
(***************************************************************************)

\* The sources of an image: relative to the site, to the scheme, to the page,
\* absolute, and none.
ImageSources == {"/logo.png", "//cdn.io/a.png", "a.png", "https://x.io/a.png", ""}

\* The attributes of an image; an empty value stands for an attribute left out.
ImageAttrs(alt, src, title) ==
    [a \in {b \in {"alt", "src", "title"} :
                (CASE b = "alt" -> alt [] b = "src" -> src [] b = "title" -> title) # ""}
        |-> CASE a = "alt" -> alt [] a = "src" -> src [] a = "title" -> title]

\* A model page whose readme is a text and an image.
ImagePage(before, alt, src, title) ==
    <<El("html", 0, NoAttr), El("body", 1, NoAttr), El("div", 2, Id("display")),
      Tx(3, before), El("img", 3, ImageAttrs(alt, src, title))>>

ImagePages ==
    {ImagePage(before, alt, src, title) :
        before \in {"See ", "-"}, alt \in {"", "Logo"}, src \in ImageSources,
        title \in {"", "The logo"}}

NextImages ==
    \/ Invoke(1, "getModelDetails", [modelName |-> "m", tag |-> Undefined])
    \/ \E error \in TransportErrors : FetchRejects(1, error)
    \/ \E status \in WideStatuses : FetchResolves(1, status)
    \/ \E error \in TransportErrors : TextRejects(1, error)
    \/ \E page \in ImagePages : \E behaviour \in TurndownBehaviour :
            TextResolves(1, page, behaviour)

SpecImages == InitOne /\ [][NextImages]_vars

(***************************************************************************)
(* SpecLinks: one call of getModelTags or getModelDetails, over pages of   *)
(* one to MaxChunks rows, each a link with a label and the text next to it. *)
(***************************************************************************)

\* The rows: links to tags of the model m with the same and with different
\* names, with a label that names latest, with a path that only contains the
\* prefix, with a path that goes on after the tag, and a link to another model.
LinkKinds ==
    {[href |-> "/library/m:7b", label |-> "7b", text |-> "4GB " \o MiddleDot \o " 1 day ago"],
     [href |-> "/library/m:7b", label |-> "7b Latest", text |-> "2GB 8K context window text"],
     [href |-> "/library/m:latest", label |-> "latest", text |-> "1GB"],
     [href |-> "/library/m:q4", label |-> "q4", text |-> "latest 3GB vision"],
     [href |-> "/x/library/m:q8", label |-> "q8", text |-> "6GB"],
     [href |-> "/library/m:7b/blobs", label |-> "blobs", text |-> "5GB"],
     [href |-> "/library/mm:7b", label |-> "other", text |-> "7GB"]}

\* The nodes of the rows from the j-th on; the div of a row is node at.
RECURSIVE LinkRows(_, _, _)
LinkRows(kinds, j, at) ==
    IF j > Len(kinds) THEN << >>
    ELSE <<El("div", 2, NoAttr),
           El("a", at, Href(kinds[j].href)), Tx(at + 1, kinds[j].label),
           El("span", at, NoAttr), Tx(at + 3, kinds[j].text)>>
            \o LinkRows(kinds, j + 1, at + 5)

LinksPage(kinds) ==
    <<El("html", 0, NoAttr), El("body", 1, NoAttr)>> \o LinkRows(kinds, 1, 3)

LinksPages == {LinksPage(kinds) : kinds \in UNION {[1..k -> LinkKinds] : k \in 1..MaxChunks}}

NextLinks ==
    \/ Invoke(1, "getModelTags", [modelName |-> "m"])
    \/ Invoke(1, "getModelDetails", [modelName |-> "m", tag |-> Undefined])
    \/ \E error \in TransportErrors : FetchRejects(1, error)
    \/ \E status \in WideStatuses : FetchResolves(1, status)
    \/ \E error \in TransportErrors : TextRejects(1, error)
    \/ \E page \in LinksPages \cup {PageEmpty} : TextResolves(1, page, "converts")

SpecLinks == InitOne /\ [][NextLinks]_vars

(***************************************************************************)
(* SpecContainers: one call of getModelListing, over pages of one to       *)
(* MaxChunks containers, each with the links of one of the kinds.          *)
(***************************************************************************)

\* The hrefs of the links of a container: catalog entries, tag links and
\* "/tags" links before and after them, links out of the catalog, none.
ContainerKinds ==
    {<<"/library/m">>, <<"/library/n">>,
     <<"/library/m:7b", "/library/m">>, <<"/library/m/tags", "/library/n">>,
     <<"/library/n", "/library/n:7b">>, <<"/library/m:7b">>,
     <<"/blog", "/library/n">>, << >>}

\* The links of a container from the j-th on, in the container at node li.
RECURSIVE ContainerLinks(_, _, _)
ContainerLinks(hrefs, j, li) ==
    IF j > Len(hrefs) THEN << >>
    ELSE <<El("a", li, Href(hrefs[j])), Tx(li + 2 * j - 1, "x")>>
            \o ContainerLinks(hrefs, j + 1, li)

\* The containers from the j-th on; the j-th is node at.
RECURSIVE ContainerRows(_, _, _)
ContainerRows(kinds, j, at) ==
    IF j > Len(kinds) THEN << >>
    ELSE <<El("li", 3, NoAttr)>> \o ContainerLinks(kinds[j], 1, at)
            \o ContainerRows(kinds, j + 1, at + 1 + 2 * Len(kinds[j]))

ContainersPage(kinds) ==
    <<El("html", 0, NoAttr), El("body", 1, NoAttr), El("ul", 2, NoAttr)>>
        \o ContainerRows(kinds, 1, 4)

ContainersPages ==
    {ContainersPage(kinds) : kinds \in UNION {[1..k -> ContainerKinds] : k \in 1..MaxChunks}}

NextContainers ==
    \/ Invoke(1, "getModelListing", NoOptions)
    \/ \E error \in TransportErrors : FetchRejects(1, error)
    \/ \E status \in WideStatuses : FetchResolves(1, status)
    \/ \E error \in TransportErrors : TextRejects(1, error)
    \/ \E page \in ContainersPages : TextResolves(1, page, "converts")

SpecContainers == InitOne /\ [][NextContainers]_vars

(***************************************************************************)
(* SpecDateText: one call of getModelTags or getModelDetails, over the     *)
(* generated date texts next to a tag link.                                *)
(***************************************************************************)

\* The pieces of a date text: the separators, a date in the long and one in
\* the compact form, a word, and a line break.
DateChunks ==
    {MiddleDot \o " ", Bullet \o " ", "2 days ago", "12 min ago ", "soon", "\n"}

DatePages == {TagPage(text) : text \in TextsOf(DateChunks)}

NextDateText ==
    \/ Invoke(1, "getModelTags", [modelName |-> "m"])
    \/ Invoke(1, "getModelDetails", [modelName |-> "m", tag |-> Undefined])
    \/ \E error \in TransportErrors : FetchRejects(1, error)
    \/ \E status \in WideStatuses : FetchResolves(1, status)
    \/ \E error \in TransportErrors : TextRejects(1, error)
    \/ \E page \in DatePages : TextResolves(1, page, "converts")

SpecDateText == InitOne /\ [][NextDateText]_vars

(***************************************************************************)
(* SpecHeader: one call of getModelDetails, over pages of one to MaxChunks *)
(* elements that may hold the download count and the date of the model.    *)
(***************************************************************************)

\* The elements: time elements without text, with padded and with plain text,
\* the phrase after "Updated" inside and outside of main, and download counts
\* that are the whole text of their element and that are part of it.
HeaderKinds ==
    {[tag |-> "time", text |-> ""], [tag |-> "time", text |-> " 3 days ago "],
     [tag |-> "time", text |-> "1 week ago"],
     [tag |-> "main", text |-> "Updated 2 hours ago\nmore"],
     [tag |-> "p", text |-> "Updated 5 hours ago"],
     [tag |-> "span", text |-> "5K Downloads"], [tag |-> "span", text |-> "1.2m download"],
     [tag |-> "div", text |-> "Total 7M Downloads"]}

\* The elements from the j-th on; the j-th is node at.
RECURSIVE HeaderNodes(_, _, _)
HeaderNodes(kinds, j, at) ==
    IF j > Len(kinds) THEN << >>
    ELSE IF kinds[j].text = ""
    THEN <<El(kinds[j].tag, 2, NoAttr)>> \o HeaderNodes(kinds, j + 1, at + 1)
    ELSE <<El(kinds[j].tag, 2, NoAttr), Tx(at, kinds[j].text)>>
            \o HeaderNodes(kinds, j + 1, at + 2)

HeaderPage(kinds) ==
    <<El("html", 0, NoAttr), El("body", 1, NoAttr)>> \o HeaderNodes(kinds, 1, 3)

HeaderPages ==
    {HeaderPage(kinds) : kinds \in UNION {[1..k -> HeaderKinds] : k \in 1..MaxChunks}}

NextHeader ==
    \/ Invoke(1, "getModelDetails", [modelName |-> "m", tag |-> Undefined])
    \/ \E error \in TransportErrors : FetchRejects(1, error)
    \/ \E status \in WideStatuses : FetchResolves(1, status)
    \/ \E error \in TransportErrors : TextRejects(1, error)
    \/ \E page \in HeaderPages : TextResolves(1, page, "converts")

SpecHeader == InitOne /\ [][NextHeader]_vars

(***************************************************************************)
(* SpecInputText: one call of getModelTags or getModelDetails, over the    *)
(* generated input-type texts next to a tag link.                          *)
(***************************************************************************)

\* The pieces of an input-type text: the two words, in both letter cases, and
\* what makes them part of a longer word or keeps them apart.
InputChunks == {"vision", "text", "Text", "con", "s", " ", "-"}

InputPages == {TagPage(text) : text \in TextsOf(InputChunks)}

NextInputText ==
    \/ Invoke(1, "getModelTags", [modelName |-> "m"])
    \/ Invoke(1, "getModelDetails", [modelName |-> "m", tag |-> Undefined])
    \/ \E error \in TransportErrors : FetchRejects(1, error)
    \/ \E status \in WideStatuses : FetchResolves(1, status)
    \/ \E error \in TransportErrors : TextRejects(1, error)
    \/ \E page \in InputPages : TextResolves(1, page, "converts")

SpecInputText == InitOne /\ [][NextInputText]_vars

(***************************************************************************)
(* Properties                                                              *)
(***************************************************************************)

\* The call has run to its end on a body delivered with a success status.
Returned(c) == calls[c].pc = "done" /\ calls[c].page # NoPage

\* The call returned a value.
ResolvedCall(c, op) == calls[c].op = op /\ calls[c].outcome.kind = "resolved"

\* The operation as the wrapped error's message names it.
OperationLabel(op) ==
    CASE op = "getModelListing" -> "model listing"
      [] op = "getModelDetails" -> "model details"
      [] op = "getModelTags" -> "model tags"

\* C1: a call whose transport rejected, or answered with a non-success status,
\* has rejected with the message "Failed to fetch <operation>: " followed by the
\* cause, which for a status is "Error: HTTP error! status: <code>"; it holds no
\* result value.
TransportFailureIsWrapped ==
    \A c \in DOMAIN calls :
        /\ calls[c].failure # NoError =>
                calls[c].outcome =
                    [kind |-> "rejected",
                     message |-> "Failed to fetch " \o OperationLabel(calls[c].op) \o ": "
                                 \o calls[c].failure.name \o ": " \o calls[c].failure.message]
        /\ (calls[c].status # 0 /\ calls[c].status \notin 200..299) =>
                calls[c].outcome =
                    [kind |-> "rejected",
                     message |-> "Failed to fetch " \o OperationLabel(calls[c].op) \o ": "
                                 \o "Error: HTTP error! status: "
                                 \o NatToString(calls[c].status)]

\* C1 happens: one call rejected by the transport and another by a 404, both
\* wrapped under the name of their operation.
TransportFailureSeen ==
    /\ calls[1].op = "getModelTags" /\ calls[1].status = 404
    /\ calls[1].outcome.kind = "rejected"
    /\ calls[2].op = "getModelDetails" /\ calls[2].failure # NoError
    /\ calls[2].outcome.kind = "rejected"

\* C2: whatever the arguments and the body, a call whose transport delivered a
\* body with a success status resolves.
SuccessAlwaysResolves ==
    \A c \in DOMAIN calls : Returned(c) => calls[c].outcome.kind = "resolved"

\* C2 fails: the listing of the page whose entry has the slug c++ was delivered
\* with a success status, and the call rejected with the SyntaxError of the
\* pattern built from the slug.
SlugBreaksListing ==
    /\ Returned(1) /\ calls[1].op = "getModelListing" /\ calls[1].page = PageCpp
    /\ calls[1].status = 200
    /\ calls[1].outcome.kind = "rejected"
    /\ StartsWith(calls[1].outcome.message, "Failed to fetch model listing: SyntaxError")

\* The outcome and the warnings of the call run alone: the same arguments and the
\* same transport response, on an instance nothing else has been called on.
RunAlone(call) ==
    IF call.failure # NoError
    THEN [outcome |-> Rejected(call.op, call.failure), warnings |-> << >>]
    ELSE IF call.page = NoPage
    THEN [outcome |-> Rejected(call.op, HttpError(call.status)), warnings |-> << >>]
    ELSE Continue(call.op, call.args, call.page, call.behaviour, {})

\* C3: under every interleaving and after any earlier calls, the outcome of a call
\* that has ended is the outcome of that call run alone.
CallsAreIndependent ==
    \A c \in DOMAIN calls :
        calls[c].pc = "done" =>
            [outcome |-> calls[c].outcome, warnings |-> calls[c].warnings]
                = RunAlone(calls[c])

\* C3 happens: two listings of the same page have both returned its two names,
\* the second after the first had de-duplicated them.
SameNamesTwice ==
    /\ ResolvedCall(1, "getModelListing") /\ ResolvedCall(2, "getModelListing")
    /\ calls[1].page = PageCatalog /\ calls[2].page = PageCatalog
    /\ Len(calls[1].outcome.value) = 2
    /\ calls[2].outcome.value = calls[1].outcome.value

\* C4: a call that has been made has issued exactly one request, to the address
\* of its operation and arguments, whatever became of the request and whatever
\* other calls requested.
OneRequestPerCall ==
    \A c \in DOMAIN calls :
        IF calls[c].pc = "idle" THEN calls[c].requests = << >>
        ELSE calls[c].requests = <<RequestUrl(calls[c].op, calls[c].args)>>

\* C4 happens: the same call made twice, the first answered with a 404, and each
\* has its one request.
RepeatedCallSeen ==
    /\ calls[1].pc = "done" /\ calls[1].status = 404
    /\ calls[2].pc = "done" /\ calls[2].op = calls[1].op /\ calls[2].args = calls[1].args
    /\ Len(calls[1].requests) = 1 /\ Len(calls[2].requests) = 1

\* No two records of the list share their name.
NamesUnique(records) ==
    \A i, j \in 1..Len(records) : i # j => records[i].name # records[j].name

\* C5: no two records of a listing, no two entries of the models of a details
\* result and no two records of a tags result share their name.
ResultNamesUnique ==
    \A c \in DOMAIN calls :
        calls[c].outcome.kind = "resolved" =>
            NamesUnique(IF calls[c].op = "getModelDetails"
                        THEN calls[c].outcome.value.models
                        ELSE calls[c].outcome.value)

\* C5 happens: a tags call on the page that links the tag latest twice returned
\* its two tags.
DuplicateLinkSeen ==
    /\ ResolvedCall(1, "getModelTags") /\ calls[1].page = PageModel
    /\ Len(TagLinks(calls[1].page, "m")) = 3
    /\ Len(calls[1].outcome.value) = 2

\* The page holds no link to a catalog entry: no anchor whose href starts with
\* "/library/" and has neither a colon nor "/tags".
NoCatalogLink(page) ==
    \A i \in 1..Len(page) :
        ~(/\ page[i].tag = "a"
          /\ StartsWith(Attr(page[i], "href"), "/library/")
          /\ ~Includes(Attr(page[i], "href"), ":")
          /\ ~Includes(Attr(page[i], "href"), "/tags"))

\* C6: a listing of a page without a link to a catalog entry resolves with the
\* empty array, whatever the query and the sort order.
NoLinksGiveEmptyListing ==
    \A c \in DOMAIN calls :
        (Returned(c) /\ calls[c].op = "getModelListing" /\ NoCatalogLink(calls[c].page)) =>
            calls[c].outcome = [kind |-> "resolved", value |-> << >>]

\* C6 happens: a search on the page whose containers link to a tag and to a tags
\* page only has returned.
UnrelatedPageListed ==
    /\ Returned(1) /\ calls[1].op = "getModelListing"
    /\ calls[1].args.query = Some("a b")
    /\ calls[1].page = PageUnrelated

\* The n characters of the text from i on are a whole token: no word character
\* before them, none after.
WholeToken(text, i, n) ==
    /\ i >= 1 /\ i + n - 1 <= Len(text)
    /\ Ch(text, i - 1) \notin WordChar
    /\ Ch(text, i + n) \notin WordChar

\* C7: the digest of a tag is the empty string, or twelve characters of 0-9a-f
\* that are a whole token of the text of an element of the page.
DigestIsWholeOrEmpty ==
    \A c \in DOMAIN calls :
        ResolvedCall(c, "getModelTags") =>
            \A k \in 1..Len(calls[c].outcome.value) :
                \/ calls[c].outcome.value[k].digest = ""
                \/ /\ Len(calls[c].outcome.value[k].digest) = 12
                   /\ \A j \in 1..12 :
                        Ch(calls[c].outcome.value[k].digest, j) \in Chars("0123456789abcdef")
                   /\ \E n \in 1..Len(calls[c].page) :
                        \E i \in 1..Len(TextOf(calls[c].page, n)) :
                            /\ WholeToken(TextOf(calls[c].page, n), i, 12)
                            /\ SubSeq(TextOf(calls[c].page, n), i, i + 11)
                                    = calls[c].outcome.value[k].digest

\* C7 happens: a tag whose metadata holds twelve hex characters after a dash has
\* them for its digest.
DigestSeen ==
    /\ ResolvedCall(1, "getModelTags")
    /\ calls[1].page = TagPage("-abc123def456")
    /\ calls[1].outcome.value[1].digest = "abc123def456"

\* The names of the tags the variant links of the page end in.
VariantNames(page) ==
    {TagNameOf(Attr(page[i], "href"))[1] :
        i \in {j \in 1..Len(page) :
                /\ page[j].tag = "a"
                /\ Includes(Attr(page[j], "href"), "/library/")
                /\ TagNameOf(Attr(page[j], "href")) # << >>}}

\* C8: in a details result readmeMarkdown is defined only if readmeHtml is; with
\* no readme container on the page both are undefined, and models has an entry
\* for each tag name the variant links of the page give.
MarkdownOnlyWithHtml ==
    \A c \in DOMAIN calls :
        ResolvedCall(c, "getModelDetails") =>
            /\ calls[c].outcome.value.readmeMarkdown # Undefined =>
                    calls[c].outcome.value.readmeHtml # Undefined
            /\ ById(calls[c].page, "display") = << >> =>
                    /\ calls[c].outcome.value.readmeHtml = Undefined
                    /\ calls[c].outcome.value.readmeMarkdown = Undefined
                    /\ {calls[c].outcome.value.models[k].name :
                            k \in 1..Len(calls[c].outcome.value.models)}
                        = VariantNames(calls[c].page)

\* C8 happens: the details of the page with two variant links and no readme
\* container have two models and no readme.
NoReadmeSeen ==
    /\ ResolvedCall(1, "getModelDetails") /\ calls[1].page = PageNoReadme
    /\ Len(calls[1].outcome.value.models) = 2
    /\ calls[1].outcome.value.readmeHtml = Undefined

\* The HTML of the readme container of the page, trimmed.
ReadmeHtmlOf(page) == Trim(InnerHtml(page, First(ById(page, "display"))))

\* The result with its Markdown taken out.
WithoutMarkdown(details) == [details EXCEPT !.readmeMarkdown = Undefined]

\* C9: when the conversion throws on a non-empty readme the call resolves, a
\* warning is logged, readmeMarkdown is undefined, readmeHtml is the HTML of the
\* container, and the other fields are those of the call whose conversion succeeds.
ConversionFailureIsSoft ==
    \A c \in DOMAIN calls :
        (/\ Returned(c) /\ calls[c].op = "getModelDetails"
         /\ calls[c].behaviour = "throws"
         /\ ReadmeHtmlOf(calls[c].page) # "") =>
            /\ calls[c].outcome.kind = "resolved"
            /\ Len(calls[c].warnings) = 1
            /\ calls[c].outcome.value.readmeMarkdown = Undefined
            /\ calls[c].outcome.value.readmeHtml = Some(ReadmeHtmlOf(calls[c].page))
            /\ calls[c].outcome.value =
                    WithoutMarkdown(ParseDetails(calls[c].page, calls[c].args.modelName,
                                                 {}, "converts").result.value)

\* C9 happens: the conversion threw on the readme of the model page, whose
\* Markdown the converting call does return.
ConversionFailureSeen ==
    /\ Returned(1) /\ calls[1].op = "getModelDetails"
    /\ calls[1].behaviour = "throws" /\ calls[1].page = PageModel
    /\ ParseDetails(PageModel, "m", {}, "converts").result.value.readmeMarkdown # Undefined
    /\ calls[1].warnings # << >>

\* The first container of the page whose first library link is to the entry.
ContainerOf(page, name) ==
    First(IndicesFrom(page,
            LAMBDA i : /\ page[i].tag = "li"
                       /\ FirstLibraryLink(page, i) # 0
                       /\ Attr(Node(page, FirstLibraryLink(page, i)), "href")
                            = "/library/" \o name, 1))

\* The text holds the token, letter case aside, at the start of a word, and goes
\* on after optional white space with "pulls" or "tags", letter case aside.
FollowedByLabel(text, token) ==
    \E i \in 1..Len(text) :
        /\ i + Len(token) - 1 <= Len(text)
        /\ ToLowerCase(SubSeq(text, i, i + Len(token) - 1)) = ToLowerCase(token)
        /\ Ch(text, i - 1) \notin WordChar
        /\ \E label \in {"pulls", "tags"} :
                StartsWith(ToLowerCase(TrimStart(SubSeq(text, i + Len(token), Len(text)))),
                           label)

\* C10: no parameter of a listing record is a token that the text of the record's
\* container follows, after optional white space, with Pulls or Tags in any
\* letter case.
NoLabelledParameters ==
    \A c \in DOMAIN calls :
        ResolvedCall(c, "getModelListing") =>
            \A k \in 1..Len(calls[c].outcome.value) :
                \A j \in 1..Len(calls[c].outcome.value[k].parameters) :
                    ~FollowedByLabel(
                        TextOf(calls[c].page,
                               ContainerOf(calls[c].page, calls[c].outcome.value[k].name)),
                        calls[c].outcome.value[k].parameters[j])

\* C10 happens: of two size tokens the one before Pulls is left out and the other
\* is a parameter.
LabelledTokenSeen ==
    /\ ResolvedCall(1, "getModelListing")
    /\ calls[1].page = ListingPage("13b 7b Pulls ")
    /\ calls[1].outcome.value[1].parameters = <<"13b">>

\* The fields of a listing record that Scenario A names.
ScenarioFields(record) ==
    [name |-> record.name, description |-> record.description,
     parameters |-> record.parameters, pulls |-> record.pulls, tags |-> record.tags,
     lastUpdated |-> record.lastUpdated]

\* The listing of the page has returned.
Listed(c, page) == Returned(c) /\ calls[c].op = "getModelListing" /\ calls[c].page = page

\* C11 as stated: the listing of the single-line container is one record with the
\* description 'Test description', parameters 7b and 13b, pulls '100K', tags 5 and
\* lastUpdated '2 hours ago'.
ScenarioAAsStated ==
    \A c \in DOMAIN calls :
        Listed(c, PageScenarioA) =>
            /\ calls[c].outcome.kind = "resolved"
            /\ Len(calls[c].outcome.value) = 1
            /\ ScenarioFields(calls[c].outcome.value[1]) =
                    [name |-> "test-model", description |-> "Test description",
                     parameters |-> <<"7b", "13b">>, pulls |-> "100K", tags |-> 5,
                     lastUpdated |-> "2 hours ago"]

\* C11 amended: the listing of the single-line container is one record whose
\* description is the whole rest of the line; the description is 'Test description'
\* when a line break follows it.  The other fields are as stated in both.
ScenarioAToEndOfLine ==
    \A c \in DOMAIN calls :
        /\ Listed(c, PageScenarioA) =>
            /\ calls[c].outcome.kind = "resolved"
            /\ Len(calls[c].outcome.value) = 1
            /\ ScenarioFields(calls[c].outcome.value[1]) =
                    [name |-> "test-model",
                     description |->
                        "Test description Parameters: 7b, 13b 100K Pulls 5 Tags Updated 2 hours ago",
                     parameters |-> <<"7b", "13b">>, pulls |-> "100K", tags |-> 5,
                     lastUpdated |-> "2 hours ago"]
        /\ Listed(c, PageScenarioALines) =>
            /\ calls[c].outcome.kind = "resolved"
            /\ Len(calls[c].outcome.value) = 1
            /\ ScenarioFields(calls[c].outcome.value[1]) =
                    [name |-> "test-model", description |-> "Test description",
                     parameters |-> <<"7b", "13b">>, pulls |-> "100K", tags |-> 5,
                     lastUpdated |-> "2 hours ago"]

\* C11 happens: the single-line container has been listed.
ScenarioASeen ==
    /\ Listed(1, PageScenarioA)
    /\ calls[1].outcome.kind = "resolved"
    /\ calls[1].outcome.value[1].name = "test-model"

\* The fields of a tag that are derived from its metadata text.
DerivedFields(record) ==
    [size |-> record.size, digest |-> record.digest, modifiedAt |-> record.modifiedAt,
     contextWindow |-> record.contextWindow, inputType |-> record.inputType]

\* The first link of the page to the tag of the model with the name.
FirstTagLink(page, modelName, name) ==
    CHOOSE i \in 1..Len(page) :
        /\ page[i].tag = "a"
        /\ Includes(Attr(page[i], "href"), "/library/" \o modelName \o ":")
        /\ TagNameOf(Attr(page[i], "href")) = <<name>>
        /\ \A j \in 1..(i - 1) :
                ~(/\ page[j].tag = "a"
                  /\ Includes(Attr(page[j], "href"), "/library/" \o modelName \o ":")
                  /\ TagNameOf(Attr(page[j], "href")) = <<name>>)

\* The text of the element right after the first link to the tag.
TextAfterLink(page, modelName, name) ==
    TextOf(page, NextSibling(page, FirstTagLink(page, modelName, name)))

\* C12: the tags of a page whose link to <model>:latest is followed by an element
\* with the text '4.1GB abc123def456 2 hours ago' start with the record latest,
\* 4.1GB, abc123def456, 2 hours ago; and whenever the element right after a tag's
\* link has a text with GB, MB or TB in it, the size, digest, modifiedAt,
\* contextWindow and inputType of the tag are those of that text alone.
SiblingTextAloneDecides ==
    \A c \in DOMAIN calls :
        ResolvedCall(c, "getModelTags") =>
            /\ (calls[c].page = PageModel /\ calls[c].args.modelName = "m") =>
                    /\ calls[c].outcome.value[1].name = "latest"
                    /\ calls[c].outcome.value[1].size = "4.1GB"
                    /\ calls[c].outcome.value[1].digest = "abc123def456"
                    /\ calls[c].outcome.value[1].modifiedAt = "2 hours ago"
            /\ \A k \in 1..Len(calls[c].outcome.value) :
                    HasSizeUnit(TextAfterLink(calls[c].page, calls[c].args.modelName,
                                              calls[c].outcome.value[k].name)) =>
                        DerivedFields(calls[c].outcome.value[k]) =
                            DerivedFields(
                                Tag(TextAfterLink(calls[c].page, calls[c].args.modelName,
                                                  calls[c].outcome.value[k].name),
                                    "", Undefined))

\* C12 happens: the element after the link holds a size in a long text, the one
\* after it another size in a shorter text, and the tag has the size of the first.
SiblingTextSeen ==
    /\ ResolvedCall(1, "getModelTags")
    /\ calls[1].page = CascadePage(<<"long", "short">>, "", "", "")
    /\ calls[1].outcome.value[1].size = "1MB"
    /\ calls[1].outcome.value[1].digest = "abcdef000001"
    /\ calls[1].outcome.value[1].modifiedAt = "1 days ago"

\* The k-th ancestor of the node, 0 when there is none.
RECURSIVE NthParent(_, _, _)
NthParent(page, i, k) == IF k = 0 THEN i ELSE NthParent(page, Parent(page, i), k - 1)

\* The j-th element after the node among its siblings, 0 when there is none.
RECURSIVE NthNext(_, _, _)
NthNext(page, i, j) == IF j = 0 THEN i ELSE NthNext(page, NextSibling(page, i), j - 1)

\* The text holds GB, MB or TB and is shorter than the limit.
Plausible(text, limit) ==
    /\ \E unit \in {"GB", "MB", "TB"} : Includes(text, unit)
    /\ Len(text) < limit

\* The metadata text the cascade of C20 chooses for a link.
CascadeChoice(page, link) ==
    IF \E unit \in {"GB", "MB", "TB"} : Includes(TextOf(page, NthNext(page, link, 1)), unit)
    THEN TextOf(page, NthNext(page, link, 1))
    ELSE IF \E k \in 1..3 : Plausible(TextOf(page, NthParent(page, link, k)), 200)
    THEN TextOf(page, NthParent(page, link,
            CHOOSE k \in 1..3 :
                /\ Plausible(TextOf(page, NthParent(page, link, k)), 200)
                /\ \A h \in 1..(k - 1) :
                        ~Plausible(TextOf(page, NthParent(page, link, h)), 200)))
    ELSE IF \E j \in 1..3 : Plausible(TextOf(page, NthNext(page, link, j)), 100)
    THEN TextOf(page, NthNext(page, link,
            CHOOSE j \in 1..3 :
                /\ Plausible(TextOf(page, NthNext(page, link, j)), 100)
                /\ \A h \in 1..(j - 1) :
                        ~Plausible(TextOf(page, NthNext(page, link, h)), 100)))
    ELSE ""

\* The fields of a tag without metadata text.
NoMetadata ==
    [size |-> "", digest |-> "", modifiedAt |-> "", contextWindow |-> Undefined,
     inputType |-> Undefined]

\* C20: the fields of every tag are those of the text chosen by the cascade: the
\* text of the element right after the link if it holds GB, MB or TB; else that
\* of the nearest of the link's three nearest ancestors whose text holds a unit
\* and is shorter than 200; else that of the first of the three elements after
\* the link whose text holds a unit and is shorter than 100; else the empty text,
\* and then size, digest and modifiedAt are '' and contextWindow and inputType
\* are undefined.
CascadeStopsAtFirstStage ==
    \A c \in DOMAIN calls :
        ResolvedCall(c, "getModelTags") =>
            \A k \in 1..Len(calls[c].outcome.value) :
                \A text \in {CascadeChoice(calls[c].page,
                                FirstTagLink(calls[c].page, calls[c].args.modelName,
                                             calls[c].outcome.value[k].name))} :
                    /\ DerivedFields(calls[c].outcome.value[k])
                            = DerivedFields(Tag(text, "", Undefined))
                    /\ text = "" => DerivedFields(calls[c].outcome.value[k]) = NoMetadata

\* C20 happens, third stage: the row is too long for a container, the first
\* element after the link holds no size, the second holds one in a text of 100
\* characters, and the tag has the size of the third.
ThirdStageSeen ==
    /\ ResolvedCall(1, "getModelTags")
    /\ calls[1].page = CascadePage(<<"plain", "long", "short", "short">>, "", "", "")
    /\ calls[1].outcome.value[1].size = "3MB"

\* The sizes of the records of a call that returned tags or details.
SizesOf(call) ==
    IF call.outcome.kind # "resolved" THEN {}
    ELSE IF call.op = "getModelTags"
    THEN {call.outcome.value[k].size : k \in 1..Len(call.outcome.value)}
    ELSE IF call.op = "getModelDetails"
    THEN {call.outcome.value.models[k].size : k \in 1..Len(call.outcome.value.models)}
    ELSE {}

AllDigits(s) == \A i \in 1..Len(s) : Ch(s, i) \in Digit

\* Digits with an optional decimal part: a point followed by digits.
IsDecimal(s) ==
    \/ s # "" /\ AllDigits(s)
    \/ \E d \in 2..(Len(s) - 1) :
            /\ Ch(s, d) = "."
            /\ AllDigits(SubSeq(s, 1, d - 1)) /\ AllDigits(SubSeq(s, d + 1, Len(s)))

\* Digits, then optionally a point, then optionally more digits.
IsDigitsPointDigits(s) ==
    \/ s # "" /\ AllDigits(s)
    \/ \E d \in 2..Len(s) :
            /\ Ch(s, d) = "."
            /\ AllDigits(SubSeq(s, 1, d - 1)) /\ AllDigits(SubSeq(s, d + 1, Len(s)))

\* The size of the tag with the name among the tags returned.
SizeOfTag(tags, name) ==
    {tags[k].size : k \in {j \in 1..Len(tags) : tags[j].name = name}}

\* C13 as stated: every size of a tag or a variant is '' or a number, digits with
\* an optional decimal part, directly followed by GB, MB or TB.
SizeIsDecimalAndUnit ==
    \A c \in DOMAIN calls :
        \A size \in SizesOf(calls[c]) :
            \/ size = ""
            \/ /\ Len(size) > 2
               /\ SubSeq(size, Len(size) - 1, Len(size)) \in {"GB", "MB", "TB"}
               /\ IsDecimal(SubSeq(size, 1, Len(size) - 2))

\* C13 amended: every size of a tag or a variant is '' or digits, optionally a
\* point, optionally more digits, directly followed by G, M or T and B in either
\* letter case, without white space; and on the page of the unusual sizes the tag
\* next to '? KB' has the size '', the others 500MB and 1.5TB.
SizeIsDigitsAndUnitInAnyCase ==
    \A c \in DOMAIN calls :
        /\ \A size \in SizesOf(calls[c]) :
            \/ size = ""
            \/ /\ Len(size) > 2
               /\ ToLowerCase(SubSeq(size, Len(size) - 1, Len(size))) \in {"gb", "mb", "tb"}
               /\ IsDigitsPointDigits(SubSeq(size, 1, Len(size) - 2))
        /\ (ResolvedCall(c, "getModelTags") /\ calls[c].page = PageScenarioE) =>
                /\ SizeOfTag(calls[c].outcome.value, "tiny") = {"500MB"}
                /\ SizeOfTag(calls[c].outcome.value, "huge") = {"1.5TB"}
                /\ SizeOfTag(calls[c].outcome.value, "unknown") = {""}

\* C13 happens: a tag whose text holds a size with its unit in lower case before
\* one in upper case has the former for its size.
LowerCaseSizeSeen ==
    /\ ResolvedCall(1, "getModelTags")
    /\ calls[1].page = SizePage("4gbGB")
    /\ calls[1].outcome.value[1].size = "4gb"

\* The text with each of its spaces written as a plus sign.
RECURSIVE PlusForSpace(_)
PlusForSpace(s) ==
    IF s = "" THEN ""
    ELSE (IF Head(s) = " " THEN "+" ELSE Head(s)) \o PlusForSpace(Tail(s))

\* "?" and the parts that are not empty, joined by "&"; nothing when all are.
QueryOf(q, sort) ==
    IF q = "" /\ sort = "" THEN ""
    ELSE IF q = "" THEN "?" \o sort
    ELSE IF sort = "" THEN "?" \o q
    ELSE "?" \o q \o "&" \o sort

\* The address of C14 as stated: an argument is supplied when it is defined, and
\* it is appended as it is.
UrlAsStated(op, args) ==
    CASE op = "getModelListing" ->
            "https://ollama.com/library"
                \o QueryOf(IF args.query = Undefined THEN "" ELSE "q=" \o args.query[1],
                           IF args.sort = Undefined THEN "" ELSE "sort=" \o args.sort[1])
      [] op = "getModelDetails" ->
            IF args.tag = Undefined
            THEN "https://ollama.com/library/" \o args.modelName
            ELSE "https://ollama.com/library/" \o args.modelName \o ":" \o args.tag[1]
      [] op = "getModelTags" -> "https://ollama.com/library/" \o args.modelName \o "/tags"

\* The address of C14 amended: an argument counts when it is defined and not the
\* empty string, and a query of letters, digits and spaces is appended with its
\* spaces written as plus signs.
UrlAmended(op, args) ==
    CASE op = "getModelListing" ->
            "https://ollama.com/library"
                \o QueryOf(IF args.query \in {Undefined, Some("")} THEN ""
                           ELSE "q=" \o PlusForSpace(args.query[1]),
                           IF args.sort \in {Undefined, Some("")} THEN ""
                           ELSE "sort=" \o args.sort[1])
      [] op = "getModelDetails" ->
            IF args.tag \in {Undefined, Some("")}
            THEN "https://ollama.com/library/" \o args.modelName
            ELSE "https://ollama.com/library/" \o args.modelName \o ":" \o args.tag[1]
      [] op = "getModelTags" -> "https://ollama.com/library/" \o args.modelName \o "/tags"

\* C14 as stated: the one address a call requests is the catalog address with
\* q=<query> and sort=<sort> appended for the arguments supplied, q first;
\* /library/<slug> or /library/<slug>:<tag> for the details; /library/<slug>/tags
\* for the tags.
UrlHasSuppliedArguments ==
    \A c \in DOMAIN calls :
        calls[c].pc # "idle" =>
            calls[c].requests = <<UrlAsStated(calls[c].op, calls[c].args)>>

\* C14 amended: the same, where an argument that is the empty string counts as
\* not supplied and the query is appended in form encoding (a space as '+').
UrlHasNonEmptyArgumentsEncoded ==
    \A c \in DOMAIN calls :
        calls[c].pc # "idle" =>
            calls[c].requests = <<UrlAmended(calls[c].op, calls[c].args)>>

\* C14 happens: a listing is requested with a query of two words and a sort.
QueryAndSortSeen ==
    /\ calls[1].op = "getModelListing"
    /\ calls[1].args = [query |-> Some("a b"), sort |-> Some("newest")]
    /\ calls[1].requests = <<"https://ollama.com/library?q=a+b&sort=newest">>

\* The names of the records, in their order.
NamesOf(records) == [k \in 1..Len(records) |-> records[k].name]

\* C15: whatever the sort option, of any two records of a listing the one whose
\* container comes first in the document comes first in the result.
ListingInDocumentOrder ==
    \A c \in DOMAIN calls :
        ResolvedCall(c, "getModelListing") =>
            \A j, k \in 1..Len(calls[c].outcome.value) :
                j < k =>
                    ContainerOf(calls[c].page, calls[c].outcome.value[j].name)
                        < ContainerOf(calls[c].page, calls[c].outcome.value[k].name)

\* C15 happens: a listing asked for with a sort option returns the entries of a
\* page that are in no order in the order of the page.
UnsortedListingSeen ==
    /\ ResolvedCall(1, "getModelListing")
    /\ calls[1].args.sort = Some("newest")
    /\ calls[1].page = PageUnsorted
    /\ NamesOf(calls[1].outcome.value) = <<"z", "a", "m">>

\* The text holds the term, letter case aside, with no word character right
\* before it and none right after it.
HasWholeWord(text, term) ==
    \E i \in 1..Len(text) :
        /\ i + Len(term) - 1 <= Len(text)
        /\ ToLowerCase(SubSeq(text, i, i + Len(term) - 1)) = term
        /\ Ch(text, i - 1) \notin WordChar
        /\ Ch(text, i + Len(term)) \notin WordChar

\* The terms of the vocabulary, in its order, that the text holds as whole words.
WholeWordsOf(text) ==
    SelectSeq(<<"tools", "vision", "thinking", "embedding">>,
              LAMBDA term : HasWholeWord(text, term))

\* C16: the capabilities of a listing record are the terms of tools, vision,
\* thinking, embedding, in this order and each once, that the text of the
\* record's container holds as whole words in any letter case; they are
\* undefined exactly when there is no such term.  'computer vision' gives
\* vision; 'provisions for revisioning' gives nothing.
CapabilitiesAreWholeWords ==
    \A c \in DOMAIN calls :
        ResolvedCall(c, "getModelListing") =>
            /\ \A k \in 1..Len(calls[c].outcome.value) :
                \A words \in
                    {WholeWordsOf(TextOf(calls[c].page,
                        ContainerOf(calls[c].page, calls[c].outcome.value[k].name)))} :
                    calls[c].outcome.value[k].capabilities =
                        IF words = << >> THEN Undefined ELSE Some(words)
            /\ calls[c].page = ListingPage("has computer vision") =>
                    calls[c].outcome.value[1].capabilities = Some(<<"vision">>)
            /\ calls[c].page = ListingPage("provisions for revisioning") =>
                    calls[c].outcome.value[1].capabilities = Undefined

\* C16 happens: a container naming vision before tools, in capitals, has tools
\* and vision for its capabilities.
CapabilitiesSeen ==
    /\ ResolvedCall(1, "getModelListing")
    /\ calls[1].page = ListingPage("Vision tools")
    /\ calls[1].outcome.value[1].capabilities = Some(<<"tools", "vision">>)

\* The record of a container with the parts, but for its description and url:
\* the value of each part that is there, the default of each that is not.
FieldsExpected(parts) ==
    [name |-> "m",
     parameters |-> IF "parameters" \in parts THEN <<"7b">> ELSE << >>,
     pulls |-> IF "pulls" \in parts THEN "100K" ELSE "0",
     tags |-> IF "tags" \in parts THEN 5 ELSE 0,
     lastUpdated |-> IF "updated" \in parts THEN "2 hours ago" ELSE "",
     capabilities |-> IF "capabilities" \in parts THEN Some(<<"tools">>) ELSE Undefined]

FieldsBesidesDescription(record) ==
    [name |-> record.name, parameters |-> record.parameters, pulls |-> record.pulls,
     tags |-> record.tags, lastUpdated |-> record.lastUpdated,
     capabilities |-> record.capabilities]

\* C17: a container yields its record whichever of its parts are missing, and
\* each of parameters, pulls, tags, lastUpdated and capabilities has its default
\* ([], '0', 0, '', undefined) exactly when its own part is missing, whatever the
\* other parts; the description is '' when there is neither a p element nor any
\* text after the link, and the described text when the description is there.
MissingFieldsTakeDefaults ==
    \A c \in DOMAIN calls :
        (Returned(c) /\ calls[c].op = "getModelListing") =>
            \A kind \in DescriptionKinds : \A parts \in SUBSET FieldParts :
                calls[c].page = FieldPage(kind, parts) =>
                    /\ calls[c].outcome.kind = "resolved"
                    /\ Len(calls[c].outcome.value) = 1
                    /\ FieldsBesidesDescription(calls[c].outcome.value[1])
                            = FieldsExpected(parts)
                    /\ kind # "none" => calls[c].outcome.value[1].description = "A model"
                    /\ (kind = "none" /\ parts = {}) =>
                            calls[c].outcome.value[1].description = ""

\* C17 happens: a container with nothing but its link and its tag count gives a
\* record with that count and every other field at its default.
DefaultsSeen ==
    /\ ResolvedCall(1, "getModelListing")
    /\ calls[1].page = FieldPage("none", {"tags"})
    /\ calls[1].outcome.value[1].tags = 5
    /\ calls[1].outcome.value[1].pulls = "0"
    /\ calls[1].outcome.value[1].parameters = << >>
    /\ calls[1].outcome.value[1].lastUpdated = ""
    /\ calls[1].outcome.value[1].capabilities = Undefined

\* The image as C18 has it emitted.
ImageExpected(alt, src, title) ==
    "![" \o alt \o "]("
    \o (IF src # "" /\ Head(src) = "/" THEN "https://ollama.com" \o src ELSE src)
    \o (IF title # "" THEN " \"" \o title \o "\"" ELSE "")
    \o ")"

IsSizeTokenAt(text, i, n) ==
    /\ n >= 2 /\ i + n - 1 <= Len(text)
    /\ ToLowerCase(Ch(text, i + n - 1)) \in {"b", "m", "k"}
    /\ IsDigitsPointDigits(SubSeq(text, i, i + n - 2))
    /\ Ch(text, i - 1) \notin WordChar
    /\ Ch(text, i + n) \notin WordChar
    /\ ~(Ch(text, i - 1) = "." /\ Ch(text, i - 2) \in Digit)

\* What follows position i of the text is, after optional white space, the label
\* Pulls or Tags in any letter case.
LabelFollows(text, i) ==
    \E label \in {"pulls", "tags"} :
        StartsWith(ToLowerCase(TrimStart(SubSeq(text, i, Len(text)))), label)

\* The position at which the token first occurs in the text, letter case aside.
FirstOccurrence(text, token) ==
    CHOOSE i \in 1..Len(text) :
        /\ \E n \in 2..Len(text) :
                IsSizeTokenAt(text, i, n) /\ ToLowerCase(SubSeq(text, i, i + n - 1)) = token
        /\ \A h \in 1..(i - 1) :
                ~\E n \in 2..Len(text) :
                    IsSizeTokenAt(text, h, n)
                        /\ ToLowerCase(SubSeq(text, h, h + n - 1)) = token

\* C19 on the parameters of a record and the text of its container.
ParametersAsStated(parameters, text) ==
    /\ \A j, k \in 1..Len(parameters) : j # k => parameters[j] # parameters[k]
    /\ \A j \in 1..Len(parameters) :
            /\ parameters[j] = ToLowerCase(parameters[j])
            /\ \E i \in 1..Len(text) :
                    IsSizeTokenAt(text, i, Len(parameters[j]))
                        /\ ToLowerCase(SubSeq(text, i, i + Len(parameters[j]) - 1))
                                = parameters[j]
    /\ \A j, k \in 1..Len(parameters) :
            j < k => FirstOccurrence(text, parameters[j]) < FirstOccurrence(text, parameters[k])
    /\ \A i \in 1..Len(text) : \A n \in 2..Len(text) :
            (IsSizeTokenAt(text, i, n) /\ ~LabelFollows(text, i + n)) =>
                Contains(parameters, ToLowerCase(SubSeq(text, i, i + n - 1)))

\* C19: the parameters of a listing record are without duplicates, in lower
\* case and in the order of their first occurrence in the text of the record's
\* container, and every size token of that text that no Pulls or Tags label
\* follows is among them.
ParametersAreTheUnlabelledTokens ==
    \A c \in DOMAIN calls :
        ResolvedCall(c, "getModelListing") =>
            \A k \in 1..Len(calls[c].outcome.value) :
                ParametersAsStated(
                    calls[c].outcome.value[k].parameters,
                    TextOf(calls[c].page,
                           ContainerOf(calls[c].page, calls[c].outcome.value[k].name)))

\* C19 fails: the container names the size 7b and, further on, has 7B before the
\* label Pulls; the record has no parameters.
UnlabelledTokenDropped ==
    /\ ResolvedCall(1, "getModelListing")
    /\ calls[1].page = ListingPage("7b 7B Pulls ")
    /\ calls[1].outcome.value[1].parameters = << >>

\* The links of the page to tags of the model other than the one with the name.
OtherTagLinks(page, modelName, name) ==
    {i \in 1..Len(page) :
        /\ page[i].tag = "a"
        /\ Includes(Attr(page[i], "href"), "/library/" \o modelName \o ":")
        /\ TagNameOf(Attr(page[i], "href")) # << >>
        /\ TagNameOf(Attr(page[i], "href")) # <<name>>}

\* The nodes the cascade may take the metadata of a link from: the three
\* elements after it, its three nearest ancestors, and none (0).
CascadeNodes(page, link) ==
    {0} \cup {NthNext(page, link, j) : j \in 1..3} \cup {NthParent(page, link, j) : j \in 1..3}

\* The node belongs to the link alone: no link to another tag is the node, lies
\* inside it, or stands between the link and the node among their siblings.
BelongsToLinkAlone(page, link, n, others) ==
    \/ n = 0
    \/ \A o \in others :
            /\ o # n
            /\ ~IsInside(page, o, n)
            /\ ~(page[o].parent = page[link].parent /\ link < o /\ o < n)

\* The fields of the record can be read from the text of a node of the cascade
\* that belongs to the record's link alone.
ReadFromOwnNode(page, modelName, record) ==
    \E n \in CascadeNodes(page, FirstTagLink(page, modelName, record.name)) :
        /\ BelongsToLinkAlone(page, FirstTagLink(page, modelName, record.name), n,
                              OtherTagLinks(page, modelName, record.name))
        /\ DerivedFields(record) = DerivedFields(Tag(TextOf(page, n), "", Undefined))

\* C21: the size, digest, modifiedAt, contextWindow and inputType of every tag
\* are read from a text that belongs to that tag alone: the text of an element
\* after its link or of an ancestor of its link that holds no link to another
\* tag, or the empty text.
TagMetadataIsItsOwn ==
    \A c \in DOMAIN calls :
        ResolvedCall(c, "getModelTags") =>
            \A k \in 1..Len(calls[c].outcome.value) :
                ReadFromOwnNode(calls[c].page, calls[c].args.modelName,
                                calls[c].outcome.value[k])

\* C21 fails: on a page where the tag latest has its metadata next to its link
\* and the tag 7b has none, the record of 7b has the size, digest and date of
\* latest, read from the text of the body.
ForeignMetadataSeen ==
    /\ ResolvedCall(1, "getModelTags")
    /\ calls[1].page = PageModel /\ calls[1].args.modelName = "m"
    /\ calls[1].outcome.value[2].name = "7b"
    /\ calls[1].outcome.value[2].size = "4.1GB"
    /\ calls[1].outcome.value[2].digest = "abc123def456"
    /\ calls[1].outcome.value[2].modifiedAt = "2 hours ago"

\* The tag name of a path that is exactly '/library/<slug>:<tag-name>'.
ExactTagName(href, slug) ==
    IF /\ StartsWith(href, "/library/" \o slug \o ":")
       /\ Len(href) > Len("/library/" \o slug \o ":")
       /\ ~Includes(SubSeq(href, Len("/library/" \o slug \o ":") + 1, Len(href)), "/")
    THEN <<SubSeq(href, Len("/library/" \o slug \o ":") + 1, Len(href))>>
    ELSE << >>

\* The position of the first colon after the last slash of the href, 0 if none.
TagColon(href) ==
    IF \E p \in 1..Len(href) :
            Ch(href, p) = ":" /\ \A q \in p..Len(href) : Ch(href, q) # "/"
    THEN CHOOSE p \in 1..Len(href) :
            /\ Ch(href, p) = ":" /\ \A q \in p..Len(href) : Ch(href, q) # "/"
            /\ \A r \in 1..(p - 1) :
                    ~(Ch(href, r) = ":" /\ \A q \in r..Len(href) : Ch(href, q) # "/")
    ELSE 0

\* The tag name of an href that contains '/library/<slug>:' and ends with a
\* colon and one or more characters other than '/'.
ContainedTagName(href, slug) ==
    IF /\ Includes(href, "/library/" \o slug \o ":")
       /\ TagColon(href) > 0 /\ TagColon(href) < Len(href)
    THEN <<SubSeq(href, TagColon(href) + 1, Len(href))>>
    ELSE << >>

LinkTagName(href, slug, exact) ==
    IF exact THEN ExactTagName(href, slug) ELSE ContainedTagName(href, slug)

\* The first link of the page with the tag name, 0 if none.
FirstLinkNamed(page, slug, exact, name) ==
    IF \E i \in 1..Len(page) :
            page[i].tag = "a" /\ LinkTagName(Attr(page[i], "href"), slug, exact) = <<name>>
    THEN CHOOSE i \in 1..Len(page) :
            /\ page[i].tag = "a" /\ LinkTagName(Attr(page[i], "href"), slug, exact) = <<name>>
            /\ \A j \in 1..(i - 1) :
                    ~(page[j].tag = "a"
                      /\ LinkTagName(Attr(page[j], "href"), slug, exact) = <<name>>)
    ELSE 0

\* The names are those of the links of the page, each once, in the order of
\* the first link of each.
NamesOfLinks(page, slug, exact, names) ==
    /\ \A k \in 1..Len(names) : FirstLinkNamed(page, slug, exact, names[k]) > 0
    /\ \A i \in 1..Len(page) :
            (page[i].tag = "a" /\ LinkTagName(Attr(page[i], "href"), slug, exact) # << >>) =>
                \E k \in 1..Len(names) :
                    <<names[k]>> = LinkTagName(Attr(page[i], "href"), slug, exact)
    /\ \A k \in 1..Len(names) : \A l \in (k + 1)..Len(names) :
            FirstLinkNamed(page, slug, exact, names[k])
                < FirstLinkNamed(page, slug, exact, names[l])

\* C22 as stated: getModelTags returns one record for each distinct tag name
\* among the links whose path is exactly '/library/<slug>:<tag-name>' and none
\* for any other link, in the order of the first link of each name.
TagsAreTheExactLinks ==
    \A c \in DOMAIN calls :
        ResolvedCall(c, "getModelTags") =>
            NamesOfLinks(calls[c].page, calls[c].args.modelName, TRUE,
                         NamesOf(calls[c].outcome.value))

\* C22: getModelTags returns one record for each distinct tag name among the
\* links whose href contains '/library/<slug>:' and ends with ':<tag-name>',
\* the tag name free of '/', and none for any other link, in the order of the
\* first link of each name; a page with no such link yields the empty array.
TagsAreTheContainingLinks ==
    \A c \in DOMAIN calls :
        ResolvedCall(c, "getModelTags") =>
            NamesOfLinks(calls[c].page, calls[c].args.modelName, FALSE,
                         NamesOf(calls[c].outcome.value))

\* A link whose path only contains the prefix gave a record and a link whose
\* path goes on after the tag name gave none.
ContainingLinkSeen ==
    /\ ResolvedCall(1, "getModelTags")
    /\ \E k1, k2, k3 \in LinkKinds :
            /\ k1.href = "/x/library/m:q8" /\ k2.href = "/library/m:7b/blobs"
            /\ k3.href = "/library/m:7b"
            /\ calls[1].page = LinksPage(<<k1, k2, k3>>)
    /\ NamesOf(calls[1].outcome.value) = <<"q8", "7b">>

\* The first variant link of the page with the tag name.
FirstVariantLink(page, name) ==
    CHOOSE i \in 1..Len(page) :
        /\ page[i].tag = "a"
        /\ Includes(Attr(page[i], "href"), "/library/") /\ Includes(Attr(page[i], "href"), ":")
        /\ TagNameOf(Attr(page[i], "href")) = <<name>>
        /\ \A j \in 1..(i - 1) :
                ~(/\ page[j].tag = "a"
                  /\ Includes(Attr(page[j], "href"), "/library/")
                  /\ Includes(Attr(page[j], "href"), ":")
                  /\ TagNameOf(Attr(page[j], "href")) = <<name>>)

\* C23: the models entry of a tag name is unique and has the size,
\* contextWindow, inputType and lastUpdated derived from the text around the
\* first variant link with that name; later links with the name add and change
\* nothing.
VariantKeepsFirstLink ==
    \A c \in DOMAIN calls :
        ResolvedCall(c, "getModelDetails") =>
            \A k \in 1..Len(calls[c].outcome.value.models) :
                /\ \A l \in 1..Len(calls[c].outcome.value.models) :
                        l # k => calls[c].outcome.value.models[l].name
                                    # calls[c].outcome.value.models[k].name
                /\ calls[c].outcome.value.models[k]
                     = Variant(VariantText(calls[c].page,
                                   FirstVariantLink(calls[c].page,
                                       calls[c].outcome.value.models[k].name)),
                               calls[c].outcome.value.models[k].name)

\* Two links to the tag 7b with different texts around them gave one entry,
\* with the fields of the first.
RepeatedVariantSeen ==
    /\ ResolvedCall(1, "getModelDetails")
    /\ \E k1, k2 \in LinkKinds :
            /\ k1.label = "7b" /\ k2.label = "7b Latest"
            /\ calls[1].page = LinksPage(<<k1, k2>>)
    /\ calls[1].outcome.value.models
         = <<[name |-> "7b", size |-> "4GB", contextWindow |-> Undefined,
              inputType |-> Undefined, lastUpdated |-> "1 day ago"]>>

\* The href has the catalog-entry pattern: '/library/<slug>' with no colon and
\* no '/tags' at its end.
HasCatalogPattern(href) ==
    /\ StartsWith(href, "/library/")
    /\ \A p \in 1..Len(href) : Ch(href, p) # ":"
    /\ ~(Len(href) >= 5 /\ SubSeq(href, Len(href) - 4, Len(href)) = "/tags")

\* The first link inside the container with the catalog-entry pattern, 0 if none.
FirstCatalogLink(page, li) ==
    IF \E i \in 1..Len(page) :
            page[i].tag = "a" /\ IsInside(page, i, li) /\ HasCatalogPattern(Attr(page[i], "href"))
    THEN CHOOSE i \in 1..Len(page) :
            /\ page[i].tag = "a" /\ IsInside(page, i, li)
            /\ HasCatalogPattern(Attr(page[i], "href"))
            /\ \A j \in 1..(i - 1) :
                    ~(page[j].tag = "a" /\ IsInside(page, j, li)
                      /\ HasCatalogPattern(Attr(page[j], "href")))
    ELSE 0

\* The slug of the container: that of its first link with the pattern.
SlugOfContainer(page, li) ==
    IF FirstCatalogLink(page, li) = 0 THEN << >>
    ELSE <<SubSeq(Attr(page[FirstCatalogLink(page, li)], "href"), Len("/library/") + 1,
                  Len(Attr(page[FirstCatalogLink(page, li)], "href")))>>

\* The first container of the page with the slug, 0 if none.
FirstContainerOf(page, slug) ==
    IF \E i \in 1..Len(page) : page[i].tag = "li" /\ SlugOfContainer(page, i) = <<slug>>
    THEN CHOOSE i \in 1..Len(page) :
            /\ page[i].tag = "li" /\ SlugOfContainer(page, i) = <<slug>>
            /\ \A j \in 1..(i - 1) : ~(page[j].tag = "li" /\ SlugOfContainer(page, j) = <<slug>>)
    ELSE 0

\* C24: the records of a listing are those of the containers that hold a link
\* with the catalog-entry pattern and whose slug was not seen before, named by
\* the slug of the first such link of the container, in the order of the
\* containers; links without the pattern do not make a container lose its record.
ContainersYieldFirstCatalogLink ==
    \A c \in DOMAIN calls :
        ResolvedCall(c, "getModelListing") =>
            /\ \A k \in 1..Len(calls[c].outcome.value) :
                    FirstContainerOf(calls[c].page, calls[c].outcome.value[k].name) > 0
            /\ \A i \in 1..Len(calls[c].page) :
                    (calls[c].page[i].tag = "li" /\ SlugOfContainer(calls[c].page, i) # << >>) =>
                        \E k \in 1..Len(calls[c].outcome.value) :
                            <<calls[c].outcome.value[k].name>> = SlugOfContainer(calls[c].page, i)
            /\ \A k \in 1..Len(calls[c].outcome.value) :
                    \A l \in (k + 1)..Len(calls[c].outcome.value) :
                        FirstContainerOf(calls[c].page, calls[c].outcome.value[k].name)
                            < FirstContainerOf(calls[c].page, calls[c].outcome.value[l].name)

\* C24 fails: the container whose first link is the tag link /library/m:7b and
\* whose second link is /library/m gave no record.
ContainerRejectedForTagLink ==
    /\ ResolvedCall(1, "getModelListing")
    /\ calls[1].page = ContainersPage(<<(<<"/library/m:7b", "/library/m">>)>>)
    /\ calls[1].outcome.value = << >>

\* The text after the last occurrence of the one-character separator, trimmed;
\* the empty string when the text has no separator.
AfterFinal(text, separator) ==
    IF \E p \in 1..Len(text) : Ch(text, p) = separator
    THEN Trim(SubSeq(text,
                     (CHOOSE p \in 1..Len(text) :
                        /\ Ch(text, p) = separator
                        /\ \A q \in (p + 1)..Len(text) : Ch(text, q) # separator) + 1,
                     Len(text)))
    ELSE ""

\* C25: the lastUpdated of a variant is the trimmed text after the final
\* separator of the text around its link, and '' when that text has no separator.
VariantUpdatedFollowsFinalSeparator ==
    \A c \in DOMAIN calls :
        ResolvedCall(c, "getModelDetails") =>
            \A k \in 1..Len(calls[c].outcome.value.models) :
                calls[c].outcome.value.models[k].lastUpdated
                    = AfterFinal(VariantText(calls[c].page,
                                    FirstVariantLink(calls[c].page,
                                        calls[c].outcome.value.models[k].name)),
                                 MiddleDot)

\* C25 fails: with two separators in the text around the link, lastUpdated is
\* everything after the first of them.
VariantUpdatedSpansSeparators ==
    /\ ResolvedCall(1, "getModelDetails")
    /\ calls[1].page = TagPage(MiddleDot \o " " \o MiddleDot \o " " \o "2 days ago")
    /\ calls[1].outcome.value.models[1].lastUpdated = MiddleDot \o " 2 days ago"

\* The first time element of the page with text that is not only white space,
\* 0 if none.
FirstTimeWithText(page) ==
    IF \E i \in 1..Len(page) : page[i].tag = "time" /\ Trim(TextOf(page, i)) # ""
    THEN CHOOSE i \in 1..Len(page) :
            /\ page[i].tag = "time" /\ Trim(TextOf(page, i)) # ""
            /\ \A j \in 1..(i - 1) : ~(page[j].tag = "time" /\ Trim(TextOf(page, j)) # "")
    ELSE 0

\* The lastUpdated of the details of the page, the phrase after "Updated"
\* being looked for in the text given.
LastUpdatedExpected(page, text) ==
    IF FirstTimeWithText(page) # 0 THEN Trim(TextOf(page, FirstTimeWithText(page)))
    ELSE Updated(text)

\* C26 as stated: lastUpdated is the trimmed text of the first time element
\* with text; otherwise the phrase after "Updated", to the end of its line,
\* found anywhere on the page; otherwise ''.
LastUpdatedFromTimeOrPage ==
    \A c \in DOMAIN calls :
        ResolvedCall(c, "getModelDetails") =>
            calls[c].outcome.value.lastUpdated
                = LastUpdatedExpected(calls[c].page, TextOf(calls[c].page, 1))

\* C26: lastUpdated is the trimmed text of the first time element with text;
\* otherwise the phrase after "Updated", to the end of its line, found in the
\* text of the main elements of the page; otherwise ''.
LastUpdatedFromTimeOrMain ==
    \A c \in DOMAIN calls :
        ResolvedCall(c, "getModelDetails") =>
            calls[c].outcome.value.lastUpdated
                = LastUpdatedExpected(calls[c].page,
                      TextOfAll(calls[c].page, ByTag(calls[c].page, {"main"})))

\* A page with a time element without text, the phrase outside of main and the
\* phrase in main gave the phrase in main, up to the end of its line.
PhraseInMainSeen ==
    /\ ResolvedCall(1, "getModelDetails")
    /\ calls[1].page = HeaderPage(<<[tag |-> "time", text |-> ""],
                                    [tag |-> "p", text |-> "Updated 5 hours ago"],
                                    [tag |-> "main", text |-> "Updated 2 hours ago\nmore"]>>)
    /\ calls[1].outcome.value.lastUpdated = "2 hours ago"

\* Digits, optionally a point and more digits, optionally K, M or B in either case.
IsCountToken(s) ==
    \/ IsDigitsPointDigits(s)
    \/ /\ Len(s) >= 2 /\ Ch(s, Len(s)) \in {"K", "M", "B", "k", "m", "b"}
       /\ IsDigitsPointDigits(SubSeq(s, 1, Len(s) - 1))

\* The count token of a text that is, from its first to its last character, a
\* count token, optional white space and the word Download or Downloads in
\* any letter case; none for any other text.
WholeCountOf(text) ==
    IF \E n \in 1..Len(text) :
            /\ IsCountToken(SubSeq(text, 1, n))
            /\ ToLowerCase(TrimStart(SubSeq(text, n + 1, Len(text)))) \in {"download", "downloads"}
    THEN <<SubSeq(text, 1,
                  CHOOSE n \in 1..Len(text) :
                    /\ IsCountToken(SubSeq(text, 1, n))
                    /\ ToLowerCase(TrimStart(SubSeq(text, n + 1, Len(text))))
                            \in {"download", "downloads"})>>
    ELSE << >>

\* The count token of the first place of the text where the pattern stands.
ContainedCountOf(text) == Capture(SubSeq(DownloadsRegExp, 2, 7), text, 1, 4)

CountOf(text, whole) == IF whole THEN WholeCountOf(text) ELSE ContainedCountOf(text)

\* The downloads of the page: the count of the first span or div with a count, '0' if none.
DownloadsExpected(page, whole) ==
    IF \E i \in 1..Len(page) : page[i].tag \in {"span", "div"} /\ CountOf(TextOf(page, i), whole) # << >>
    THEN CountOf(TextOf(page,
            CHOOSE i \in 1..Len(page) :
                /\ page[i].tag \in {"span", "div"} /\ CountOf(TextOf(page, i), whole) # << >>
                /\ \A j \in 1..(i - 1) :
                        ~(page[j].tag \in {"span", "div"}
                          /\ CountOf(TextOf(page, j), whole) # << >>)), whole)[1]
    ELSE "0"

\* C27 as stated: downloads is the count token of the first span or div whose
\* text contains '<number><suffix> Downloads', and '0' when there is none.
DownloadsOfFirstContaining ==
    \A c \in DOMAIN calls :
        ResolvedCall(c, "getModelDetails") =>
            calls[c].outcome.value.downloads = DownloadsExpected(calls[c].page, FALSE)

\* C27: downloads is the count token of the first span or div, in document
\* order, whose whole text is '<number><suffix> Downloads'; later elements do
\* not override it, and it is '0' when there is none.
DownloadsOfFirstWhole ==
    \A c \in DOMAIN calls :
        ResolvedCall(c, "getModelDetails") =>
            calls[c].outcome.value.downloads = DownloadsExpected(calls[c].page, TRUE)

\* Of an element that only contains the pattern and two elements that are the
\* pattern, the first of the two gave the downloads.
FirstWholeCountSeen ==
    /\ ResolvedCall(1, "getModelDetails")
    /\ calls[1].page = HeaderPage(<<[tag |-> "div", text |-> "Total 7M Downloads"],
                                    [tag |-> "span", text |-> "1.2m download"],
                                    [tag |-> "span", text |-> "5K Downloads"]>>)
    /\ calls[1].outcome.value.downloads = "1.2m"

\* The modifiedAt of a candidate text, given the captures of the three patterns
\* in it: that of the first pattern that matched, trimmed; the capture of the
\* second pattern is the segment after the last bullet.
ModifiedAtIs(modifiedAt, text, ago, bullet, compact) ==
    /\ ago # << >> => modifiedAt = Trim(ago[1])
    /\ (ago = << >> /\ bullet # << >>) =>
            modifiedAt = Trim(bullet[1]) /\ modifiedAt = AfterFinal(text, Bullet)
    /\ (ago = << >> /\ bullet = << >> /\ compact # << >>) => modifiedAt = Trim(compact[1])
    /\ (ago = << >> /\ bullet = << >> /\ compact = << >>) => modifiedAt = ""

ModifiedAtOfText(modifiedAt, text) ==
    ModifiedAtIs(modifiedAt, text, Capture(AgoRegExp, text, 1, 6),
                 Capture(BulletRegExp, text, 3, 3), Capture(CompactAgoRegExp, text, 1, 5))

\* C28: the modifiedAt of a tag is the trimmed capture of the first of the
\* three patterns that matches the candidate text, in the order long form,
\* segment after the last bullet, compact form; '' when none matches.
ModifiedAtIsFirstPattern ==
    \A c \in DOMAIN calls :
        ResolvedCall(c, "getModelTags") =>
            \A k \in 1..Len(calls[c].outcome.value) :
                ModifiedAtOfText(calls[c].outcome.value[k].modifiedAt,
                    MetadataText(calls[c].page,
                        FirstTagLink(calls[c].page, calls[c].args.modelName,
                                     calls[c].outcome.value[k].name)))

\* A text with a date in the compact form and a segment after a bullet gave the
\* segment: the second pattern was consulted before the third.
BulletBeforeCompactSeen ==
    /\ ResolvedCall(1, "getModelTags")
    /\ calls[1].page = TagPage("12 min ago " \o Bullet \o " soon")
    /\ calls[1].outcome.value[1].modifiedAt = "soon"

\* The label of the link names latest, in any letter case.
LabelNamesLatest(page, link) ==
    \E p \in 1..Len(TextOf(page, link)) :
        /\ p + 5 <= Len(TextOf(page, link))
        /\ ToLowerCase(SubSeq(TextOf(page, link), p, p + 5)) = "latest"

\* C29: a tag has aliases ['latest'] exactly when its name is not 'latest' and
\* the label of its link contains 'latest' in any letter case; in every other
\* case aliases is undefined.
AliasesOnlyFromLabel ==
    \A c \in DOMAIN calls :
        ResolvedCall(c, "getModelTags") =>
            \A k \in 1..Len(calls[c].outcome.value) :
                calls[c].outcome.value[k].aliases
                    = IF /\ calls[c].outcome.value[k].name # "latest"
                         /\ LabelNamesLatest(calls[c].page,
                                FirstTagLink(calls[c].page, calls[c].args.modelName,
                                             calls[c].outcome.value[k].name))
                      THEN Some(<<"latest">>)
                      ELSE Undefined

\* Of a tag with 'latest' in its metadata only, a tag with 'Latest' in its
\* label and the tag latest itself, the second alone has the alias.
AliasFromLabelSeen ==
    /\ ResolvedCall(1, "getModelTags")
    /\ \E k1, k2, k3 \in LinkKinds :
            /\ k1.label = "q4" /\ k2.label = "7b Latest" /\ k3.label = "latest"
            /\ calls[1].page = LinksPage(<<k1, k2, k3>>)
    /\ NamesOf(calls[1].outcome.value) = <<"q4", "7b", "latest">>
    /\ calls[1].outcome.value[1].aliases = Undefined
    /\ calls[1].outcome.value[2].aliases = Some(<<"latest">>)
    /\ calls[1].outcome.value[3].aliases = Undefined

\* The input type of a text: Vision when it has the whole word vision, Text
\* when it has the whole word text and not vision, undefined otherwise.
InputTypeExpected(text) ==
    IF HasWholeWord(text, "vision") THEN Some("Vision")
    ELSE IF HasWholeWord(text, "text") THEN Some("Text")
    ELSE Undefined

\* C30: the inputType of a tag and of a variant is 'Vision' when the text it
\* is derived from has the whole word vision in any letter case, 'Text' when
\* that text has the whole word text and not vision, and undefined otherwise.
InputTypePrefersVision ==
    \A c \in DOMAIN calls :
        /\ ResolvedCall(c, "getModelTags") =>
            \A k \in 1..Len(calls[c].outcome.value) :
                calls[c].outcome.value[k].inputType
                    = InputTypeExpected(MetadataText(calls[c].page,
                          FirstTagLink(calls[c].page, calls[c].args.modelName,
                                       calls[c].outcome.value[k].name)))
        /\ ResolvedCall(c, "getModelDetails") =>
            \A k \in 1..Len(calls[c].outcome.value.models) :
                calls[c].outcome.value.models[k].inputType
                    = InputTypeExpected(VariantText(calls[c].page,
                          FirstVariantLink(calls[c].page,
                                           calls[c].outcome.value.models[k].name)))

\* A text with both words gave Vision, the word text coming first.
VisionOverTextSeen ==
    /\ ResolvedCall(1, "getModelTags")
    /\ calls[1].page = TagPage("Text" \o "-" \o "vision")
    /\ calls[1].outcome.value[1].inputType = Some("Vision")

====
